---------------------------- MODULE Spec2Model ----------------------------
(***************************************************************************)
(* Model of gorm-odata-filtering (src/gorm-odata.go): the translation of  *)
(* an OData $filter syntax tree into predicates of a gorm query builder.  *)
(*                                                                         *)
(* Strings are sequences of characters (one-character TLA+ strings); the  *)
(* SQL keywords and format pieces that only the program writes are kept   *)
(* as single elements ("LENGTH", " LIKE ?").  A syntax tree is a nested    *)
(* record; a node is addressed by its path from the root (a sequence of   *)
(* "L"/"R"), which plays the part of the parser's unique node Id, and the *)
(* Parent link is the path without its last step.                         *)
(***************************************************************************)
EXTENDS Integers, Sequences, FiniteSets, TLC

VARIABLES
    gormqonvertTranslation,         \* package variable, src/gorm-odata.go:55
    gormqonvertTranslationReversed, \* package variable, src/gorm-odata.go:67
    cacheGormqonvertTranslationMap, \* package variable, src/gorm-odata.go:30
    plugins,    \* db.Plugins of the builder the caller passes (shared config);
                \* under SpecCalls, db.Plugins of each builder of the process;
                \* under SpecThreads input, pc, ret and plugins are per thread
    input,      \* the arguments of the call under observation
    pc,         \* "ready" before the call, "done" after it
    ret         \* what the call returned (and the bootstrap it ran)

vars == <<gormqonvertTranslation, gormqonvertTranslationReversed,
          cacheGormqonvertTranslationMap, plugins, input, pc, ret>>

-----------------------------------------------------------------------------
(* Strings                                                                 *)

Contains(s, c) == \E i \in 1..Len(s) : s[i] = c

Count(s, c) == Cardinality({i \in 1..Len(s) : s[i] = c})

RECURSIVE ReplaceAll(_, _, _)
ReplaceAll(s, c, r) ==
    IF s = <<>> THEN <<>>
    ELSE (IF Head(s) = c THEN r ELSE <<Head(s)>>) \o ReplaceAll(Tail(s), c, r)

RECURSIVE Split(_, _)
Split(s, c) ==
    IF ~Contains(s, c) THEN <<s>>
    ELSE LET i == CHOOSE k \in 1..Len(s) :
                     s[k] = c /\ \A j \in 1..(k-1) : s[j] # c
         IN  <<SubSeq(s, 1, i-1)>> \o Split(SubSeq(s, i+1, Len(s)), c)

HasPrefix(s, p) == Len(p) <= Len(s) /\ SubSeq(s, 1, Len(p)) = p

IsSubstring(sub, s) ==
    \E i \in 0..(Len(s) - Len(sub)) : SubSeq(s, i+1, i+Len(sub)) = sub

Digits == {"0", "1", "2", "3", "4", "5", "6", "7", "8", "9"}

DigitVal(c) == CASE c = "0" -> 0 [] c = "1" -> 1 [] c = "2" -> 2 [] c = "3" -> 3
                 [] c = "4" -> 4 [] c = "5" -> 5 [] c = "6" -> 6 [] c = "7" -> 7
                 [] c = "8" -> 8 [] c = "9" -> 9

\* strconv.Atoi: succeeds on an optional sign followed by decimal digits.
AtoiOk(s) ==
    LET body == IF s # <<>> /\ Head(s) \in {"+", "-"} THEN Tail(s) ELSE s
    IN  body # <<>> /\ \A i \in 1..Len(body) : body[i] \in Digits

RECURSIVE AtoiNat(_)
AtoiNat(s) == IF s = <<>> THEN 0 ELSE 10 * AtoiNat(SubSeq(s, 1, Len(s)-1)) + DigitVal(s[Len(s)])

Atoi(s) == IF Head(s) = "-" THEN 0 - AtoiNat(Tail(s))
           ELSE IF Head(s) = "+" THEN AtoiNat(Tail(s))
           ELSE AtoiNat(s)

\* regexp `'(.*)'` ReplaceAllString(s, pre $1 post): the greedy match runs from
\* the first quote to the last one; text outside the match is kept.
RegexpQuoted(s, pre, post) ==
    IF Count(s, "'") < 2 THEN s
    ELSE LET qs == {k \in 1..Len(s) : s[k] = "'"}
             i  == CHOOSE k \in qs : \A j \in qs : k <= j
             j  == CHOOSE k \in qs : \A m \in qs : m <= k
         IN  SubSeq(s, 1, i-1) \o pre \o SubSeq(s, i+1, j-1) \o post
               \o SubSeq(s, j+1, Len(s))

-----------------------------------------------------------------------------
(* Errors                                                                  *)

NilError == [kind |-> "nil"]

InvalidQueryError(msg) == [kind |-> "InvalidQueryError", Msg |-> msg]

\* Error() that returns the message alone
ErrorTextBare(e) == e.Msg

\* (*InvalidQueryError).Error()
ErrorText(e) == <<"invalid query: ">> \o e.Msg

-----------------------------------------------------------------------------
(* Translation tables                                                      *)

StringOps == {"contains", "startswith", "endswith"}
CompareOps == {"eq", "ne", "lt", "le", "gt", "ge"}

operatorTranslation ==
    [op \in CompareOps \cup StringOps |->
        CASE op = "eq" -> <<"=">>
          [] op = "ne" -> <<"!", "=">>
          [] op = "lt" -> <<"<">>
          [] op = "le" -> <<"<", "=">>
          [] op = "gt" -> <<">">>
          [] op = "ge" -> <<">", "=">>
          [] OTHER     -> <<"~">>]

\* the reversed table with nothing reversed
operatorTranslationUnreversed == operatorTranslation

operatorTranslationReversed ==
    [op \in CompareOps \cup StringOps |->
        CASE op = "eq" -> <<"!", "=">>
          [] op = "ne" -> <<"=">>
          [] op = "lt" -> <<">", "=">>
          [] op = "le" -> <<">">>
          [] op = "gt" -> <<"<", "=">>
          [] op = "ge" -> <<"<">>
          [] OTHER     -> <<"!", "~">>]

\* initial value of the package variable gormqonvertTranslation
gormqonvertTranslationInit == operatorTranslation

\* initial value of the package variable gormqonvertTranslationReversed
gormqonvertTranslationReversedInit == operatorTranslationReversed

DbTypes == {"PostgreSQL", "MySQL", "SQLite", "SQLServer"}

UnaryFunctions ==
    {"length", "indexof", "tolower", "toupper", "trim", "year", "month", "day",
     "hour", "minute", "second", "fractionalsecond", "date", "time", "now",
     "round", "floor", "ceiling"}

PostgreSQLTranslation(f) ==
    CASE f = "length"  -> <<"LENGTH">>
      [] f = "indexof" -> <<"POSITION">>
      [] f = "tolower" -> <<"LOWER">>
      [] f = "toupper" -> <<"UPPER">>
      [] f = "trim"    -> <<"TRIM">>
      [] f = "year"    -> <<"EXTRACT(YEAR FROM ", "%s", ")">>
      [] f = "month"   -> <<"EXTRACT(MONTH FROM ", "%s", ")">>
      [] f = "day"     -> <<"EXTRACT(DAY FROM ", "%s", ")">>
      [] f = "hour"    -> <<"EXTRACT(HOUR FROM ", "%s", ")">>
      [] f = "minute"  -> <<"EXTRACT(MINUTE FROM ", "%s", ")">>
      [] f = "second"  -> <<"EXTRACT(SECOND FROM ", "%s", ")">>
      [] f = "fractionalsecond" -> <<"EXTRACT(MICROSECOND FROM ", "%s", ")">>
      [] f = "date"    -> <<"TO_DATE">>
      [] f = "time"    -> <<"CAST(", "%s", "::timestamp AS time)">>
      [] f = "now"     -> <<"NOW">>
      [] f = "round"   -> <<"ROUND">>
      [] f = "floor"   -> <<"FLOOR">>
      [] f = "ceiling" -> <<"CEIL">>
      [] OTHER         -> <<>>

MySQLTranslation(f) ==
    CASE f = "length"  -> <<"LENGTH">>
      [] f = "indexof" -> <<"LOCATE">>
      [] f = "tolower" -> <<"LOWER">>
      [] f = "toupper" -> <<"UPPER">>
      [] f = "trim"    -> <<"TRIM">>
      [] f = "year"    -> <<"YEAR">>
      [] f = "month"   -> <<"MONTH">>
      [] f = "day"     -> <<"DAY">>
      [] f = "hour"    -> <<"HOUR">>
      [] f = "minute"  -> <<"MINUTE">>
      [] f = "second"  -> <<"SECOND">>
      [] f = "fractionalsecond" -> <<"MICROSECOND">>
      [] f = "date"    -> <<"DATE">>
      [] f = "time"    -> <<"TIME">>
      [] f = "now"     -> <<"NOW">>
      [] f = "round"   -> <<"ROUND">>
      [] f = "floor"   -> <<"FLOOR">>
      [] f = "ceiling" -> <<"CEIL">>
      [] OTHER         -> <<>>

\* unaryFunctionTranslation[databaseType][f]; a missing key reads as "".
\* The SQLite and SQLServer tables repeat the MySQL one entry for entry.
unaryFunctionTranslation(databaseType, f) ==
    IF databaseType = "PostgreSQL" THEN PostgreSQLTranslation(f)
    ELSE MySQLTranslation(f)

-----------------------------------------------------------------------------
(* Syntax tree (github.com/bramca/go-syntax-tree Node)                     *)

NilNode == [Type |-> "nil"]

Node(type, value, left, right) ==
    [Type |-> type, Value |-> value, LeftChild |-> left, RightChild |-> right]

RECURSIVE NodeAt(_, _)
NodeAt(root, p) ==
    IF p = <<>> THEN root
    ELSE IF root.Type = "nil" THEN NilNode
    ELSE NodeAt(IF Head(p) = "L" THEN root.LeftChild ELSE root.RightChild, Tail(p))

\* node.Parent, as a path; the root has none.
ParentPath(p) == SubSeq(p, 1, Len(p) - 1)

\* the key of a table lookup by node value (operator and function names are
\* one-element strings)
Key(value) == IF Len(value) = 1 THEN value[1] ELSE ""


-----------------------------------------------------------------------------
(* Naming strategy: db.NamingStrategy.ColumnName("", s), the snake case of *)
(* gorm's default strategy: an upper-case letter is lowered and, when it   *)
(* is not the first character, preceded by an underscore.                  *)

UpperLetters == {"M", "N", "T", "V"}

LowerOf(c) == CASE c = "M" -> "m" [] c = "N" -> "n" [] c = "T" -> "t"
                [] c = "V" -> "v" [] OTHER -> c

columnTranslation(s) ==
    LET piece(i) == IF s[i] \in UpperLetters
                    THEN (IF i > 1 THEN <<"_">> ELSE <<>>) \o <<LowerOf(s[i])>>
                    ELSE <<s[i]>>
        RECURSIVE upto(_)
        upto(i) == IF i = 0 THEN <<>> ELSE upto(i-1) \o piece(i)
    IN  upto(Len(s))

-----------------------------------------------------------------------------
(* buildUnaryFuncChain and buildConcat                                      *)

\* fmt.Sprintf(template, arg) for a template with one %s verb
SprintfTemplate(template, arg) == ReplaceAll(template, "%s", arg)

\* fmt.Sprintf("%s(%s)", name, arg)
SprintfCall(name, arg) == name \o <<"(">> \o arg \o <<")">>

\* strings.Contains(unaryFunctionTranslation[databaseType][root.Value], "%")
IsTemplate(entry) == Contains(entry, "%s")

\* One run of the loop of buildUnaryFuncChain from loop state (cur, visited,
\* result) to its exit; cur is the path of the node `root` points to.
RECURSIVE unaryChainLoop(_, _, _, _, _)
unaryChainLoop(databaseType, tree, cur, nodesVisited, result) ==
    LET root  == NodeAt(tree, cur)
        left  == cur \o <<"L">>
        entry == unaryFunctionTranslation(databaseType, Key(root.Value))
    IN  IF cur \in nodesVisited \/ root.Type # "UnaryOperator" THEN result
        ELSE IF root.LeftChild.Type = "UnaryOperator" /\ left \notin nodesVisited
        THEN unaryChainLoop(databaseType, tree, left, nodesVisited, result)
        ELSE LET wrapped ==
                   IF result = <<>>
                   THEN IF IsTemplate(entry)
                        THEN SprintfTemplate(entry, columnTranslation(root.LeftChild.Value))
                        ELSE SprintfCall(entry, columnTranslation(root.LeftChild.Value))
                   ELSE SprintfCall(entry, result)
                 next == IF cur # <<>> THEN ParentPath(cur) ELSE cur
             IN  unaryChainLoop(databaseType, tree, next,
                                nodesVisited \cup {cur}, wrapped)

buildUnaryFuncChain(databaseType, tree, p) ==
    unaryChainLoop(databaseType, tree, p, {}, <<>>)

\* buildConcat with the operands of each concat in reverse order
RECURSIVE buildConcatSwapped(_, _, _)
buildConcatSwapped(databaseType, tree, p) ==
    LET root == NodeAt(tree, p)
    IN  IF root.Value = <<"concat">>
        THEN buildConcatSwapped(databaseType, tree, p \o <<"R">>) \o <<" || ">>
               \o buildConcatSwapped(databaseType, tree, p \o <<"L">>)
        ELSE IF root.Type = "UnaryOperator"
        THEN buildUnaryFuncChain(databaseType, tree, p)
        ELSE IF ~Contains(root.Value, "'") THEN columnTranslation(root.Value)
        ELSE root.Value

RECURSIVE buildConcat(_, _, _)
buildConcat(databaseType, tree, p) ==
    LET root == NodeAt(tree, p)
    IN  IF root.Value = <<"concat">>
        THEN buildConcat(databaseType, tree, p \o <<"L">>) \o <<" || ">>
               \o buildConcat(databaseType, tree, p \o <<"R">>)
        ELSE IF root.Type = "UnaryOperator"
        THEN buildUnaryFuncChain(databaseType, tree, p)
        ELSE IF root.Type \in {"LeftOperand", "RightOperand"}
        THEN IF ~Contains(root.Value, "'") THEN columnTranslation(root.Value)
             ELSE root.Value
        ELSE <<>>

-----------------------------------------------------------------------------
(* The query builder (gorm.DB), as far as the translator uses it: the list *)
(* of expressions of its WHERE clause.  An expression is                   *)
(*   [k |-> "expr", SQL, Vars]   Where(fragment, params...)                *)
(*   [k |-> "map",  m]           Where(map)                                *)
(*   [k |-> "and",  Exprs]       the predicates of a sub-builder, grouped  *)
(*   [k |-> "or",   Exprs]       an Or(...) condition                      *)
(*   [k |-> "arg",  err]         a non-nil error handed on as an argument  *)

IntVal(n) == [t |-> "int", v |-> n]
StrVal(s) == [t |-> "string", v |-> s]
MapVal(m) == [t |-> "map", v |-> m]

\* a session that keeps the predicates of the builder it is taken from
SessionKept(db) == db

\* db.Session(&gorm.Session{NewDB: true}): a builder without predicates
Session(db) == [db EXCEPT !.where = <<>>]

\* clause.And(exprs...)
ClauseAnd(exprs) ==
    IF Len(exprs) = 1 /\ exprs[1].k # "or" THEN exprs[1]
    ELSE [k |-> "and", Exprs |-> exprs]

\* The conditions gorm builds from (sub-builder, err), the two results of a
\* recursive buildGormQuery call passed on as Where/Or arguments: the
\* sub-builder's predicates as one group; a nil err is skipped, a non-nil one
\* is one more argument and is not returned.
ConditionsOf(sub, err) ==
    LET w     == sub.where
        exprs == IF Len(w) = 1 /\ w[1].k = "or"
                 THEN <<[k |-> "and", Exprs |-> w[1].Exprs]>> ELSE w
    IN  (IF w = <<>> THEN <<>> ELSE <<ClauseAnd(exprs)>>)
        \o (IF err = NilError THEN <<>> ELSE <<[k |-> "arg", err |-> err]>>)

AddWhere(db, conds) == [db EXCEPT !.where = @ \o conds]

\* db.Where(buildGormQuery(...))
WhereSub(db, r) == AddWhere(db, ConditionsOf(r.db, r.err))

\* db.Or(buildGormQuery(...))
OrSub(db, r) ==
    LET conds == ConditionsOf(r.db, r.err)
    IN  IF conds = <<>> THEN db
        ELSE AddWhere(db, <<[k |-> "or", Exprs |-> <<ClauseAnd(conds)>>]>>)

\* db.Where(queryString, param)
WhereExpr(db, sql, param) ==
    AddWhere(db, <<[k |-> "expr", SQL |-> sql, Vars |-> <<param>>]>>)

\* db.Where(filterMap)
WhereMap(db, m) == AddWhere(db, <<[k |-> "map", m |-> m]>>)

\* filterMap with the value at the last segment and the outer segments dropped
filterMapFlat(fieldSplit, leaf) ==
    columnTranslation(fieldSplit[Len(fieldSplit)]) :> StrVal(leaf)

\* the nested map built over fieldSplit, with the value at the innermost key
RECURSIVE filterMapOf(_, _)
filterMapOf(fieldSplit, leaf) ==
    IF Len(fieldSplit) = 1
    THEN columnTranslation(fieldSplit[1]) :> StrVal(leaf)
    ELSE columnTranslation(fieldSplit[1]) :> MapVal(filterMapOf(Tail(fieldSplit), leaf))


-----------------------------------------------------------------------------
(* buildGormQuery                                                           *)

\* the left operand's SQL text (the three tests of lines 508-516 / 567-575)
queryLeftOperandString(databaseType, tree, p) ==
    LET leftChild == NodeAt(tree, p)
    IN  IF leftChild.Type = "LeftOperand" THEN columnTranslation(leftChild.Value)
        ELSE IF leftChild.Value = <<"concat">> THEN buildConcat(databaseType, tree, p)
        ELSE IF leftChild.Type = "UnaryOperator"
        THEN buildUnaryFuncChain(databaseType, tree, p)
        ELSE <<>>

\* the comparison case without the checks of the right child
buildComparisonAnyRight(tree, p, db, databaseType, opTranslation, gqTranslation) ==
    LET root       == NodeAt(tree, p)
        rightChild == root.RightChild
        left       == queryLeftOperandString(databaseType, tree, p \o <<"L">>)
        right      == IF rightChild.Type = "RightOperand"
                      THEN ReplaceAll(rightChild.Value, "'", <<>>) ELSE <<>>
        queryString == left \o <<" ">> \o opTranslation[Key(root.Value)] \o <<" ?">>
    IN  [db |-> WhereExpr(db, queryString, StrVal(right)), err |-> NilError]

\* case "eq", "ne", "lt", "le", "gt", "ge"
buildComparison(tree, p, db, databaseType, opTranslation, gqTranslation) ==
    LET root       == NodeAt(tree, p)
        leftChild  == root.LeftChild
        rightChild == root.RightChild
        left       == queryLeftOperandString(databaseType, tree, p \o <<"L">>)
        right      == IF rightChild.Type = "RightOperand"
                      THEN ReplaceAll(rightChild.Value, "'", <<>>) ELSE <<>>
        leaf       == IF Key(root.Value) # "eq"
                      THEN gqTranslation[Key(root.Value)] \o right ELSE right
        queryString == left \o <<" ">> \o opTranslation[Key(root.Value)] \o <<" ?">>
    IN  IF rightChild.Type = "UnaryOperator"
        THEN [db |-> db, err |-> InvalidQueryError(
                <<"unary operators not supported as right operand of equality operators">>)]
        ELSE IF rightChild.Value = <<"concat">>
        THEN [db |-> db, err |-> InvalidQueryError(
                <<"concat not supported as right operand of equality operators">>)]
        ELSE IF Contains(leftChild.Value, "/")
        THEN [db  |-> WhereMap(db, filterMapOf(Split(leftChild.Value, "/"), leaf)),
              err |-> NilError]
        ELSE IF AtoiOk(right)
        THEN [db |-> WhereExpr(db, queryString, IntVal(Atoi(right))), err |-> NilError]
        ELSE [db |-> WhereExpr(db, queryString, StrVal(right)), err |-> NilError]

\* rightOperandTranslation with the patterns of startswith and endswith swapped
rightOperandTranslationSwapped(op) ==
    CASE op = "contains"   -> [pre |-> <<"%">>, post |-> <<"%">>]
      [] op = "startswith" -> [pre |-> <<"%">>, post |-> <<>>]
      [] op = "endswith"   -> [pre |-> <<>>,    post |-> <<"%">>]

\* rightOperandTranslation[root.Value], as the text before and after $1
rightOperandTranslation(op) ==
    CASE op = "contains"   -> [pre |-> <<"%">>, post |-> <<"%">>]
      [] op = "startswith" -> [pre |-> <<>>,    post |-> <<"%">>]
      [] op = "endswith"   -> [pre |-> <<"%">>, post |-> <<>>]

\* case "contains", "startswith", "endswith"
buildStringPredicate(tree, p, db, databaseType, gqTranslation, notEnabled) ==
    LET root       == NodeAt(tree, p)
        leftChild  == root.LeftChild
        left       == queryLeftOperandString(databaseType, tree, p \o <<"L">>)
        value      == root.RightChild.Value
        escapeContains == Contains(value, "%")
        escaped    == IF escapeContains THEN ReplaceAll(value, "%", <<"\\", "%">>)
                      ELSE value
        tr         == rightOperandTranslation(Key(root.Value))
        pattern    == RegexpQuoted(escaped, tr.pre, tr.post)
        leaf       == gqTranslation[Key(root.Value)] \o ReplaceAll(pattern, "'", <<>>)
        queryString == left
                       \o (IF notEnabled THEN <<" NOT LIKE ?">> ELSE <<" LIKE ?">>)
                       \o (IF escapeContains THEN <<" ESCAPE '\\'">> ELSE <<>>)
    IN  IF Contains(leftChild.Value, "/")
        THEN [db  |-> WhereMap(db, filterMapOf(Split(leftChild.Value, "/"), leaf)),
              err |-> NilError]
        ELSE [db |-> WhereExpr(db, queryString, StrVal(pattern)), err |-> NilError]

\* the emitter with a not below a not restoring the positive tables and flag
RECURSIVE buildGormQueryReflipped(_, _, _, _, _, _, _, _)
buildGormQueryReflipped(tree, p, db, databaseType, opTranslation, gqTranslation, gqReversed, notEnabled) ==
    LET root    == NodeAt(tree, p)
        cleanDB == Session(db)
        sub(q)  == buildGormQueryReflipped(tree, q, cleanDB, databaseType, opTranslation,
                                           gqTranslation, gqReversed, notEnabled)
        l       == sub(p \o <<"L">>)
        r       == sub(p \o <<"R">>)
    IN  IF root.Type = "Operator"
        THEN IF root.Value = <<"and">>
             THEN [db  |-> IF notEnabled THEN OrSub(WhereSub(db, l), r)
                           ELSE WhereSub(WhereSub(db, l), r),
                   err |-> NilError]
             ELSE IF root.Value = <<"or">>
             THEN [db  |-> IF notEnabled THEN WhereSub(WhereSub(db, l), r)
                           ELSE OrSub(WhereSub(db, l), r),
                   err |-> NilError]
             ELSE IF Key(root.Value) \in CompareOps
             THEN buildComparison(tree, p, db, databaseType, opTranslation, gqTranslation)
             ELSE IF Key(root.Value) \in StringOps
             THEN buildStringPredicate(tree, p, db, databaseType, gqTranslation, notEnabled)
             ELSE [db |-> db, err |-> NilError]
        ELSE IF root.Type = "UnaryOperator"
        THEN IF root.Value # <<"not">>
             THEN [db |-> db, err |-> InvalidQueryError(
                     <<"root level operators other then 'not' are not supported">>)]
             ELSE IF notEnabled
             THEN buildGormQueryReflipped(tree, p \o <<"L">>, db, databaseType,
                                          operatorTranslation, gormqonvertTranslation,
                                          gqReversed, FALSE)
             ELSE buildGormQueryReflipped(tree, p \o <<"L">>, db, databaseType,
                                          operatorTranslationReversed, gqReversed,
                                          gqReversed, TRUE)
        ELSE [db |-> db, err |-> InvalidQueryError(<<"unknown query type">>)]

\* gqReversed is the package variable gormqonvertTranslationReversed as the
\* call reads it on entering a not.
RECURSIVE buildGormQuery(_, _, _, _, _, _, _, _)
buildGormQuery(tree, p, db, databaseType, opTranslation, gqTranslation, gqReversed, notEnabled) ==
    LET root    == NodeAt(tree, p)
        cleanDB == Session(db)
        sub(q)  == buildGormQuery(tree, q, cleanDB, databaseType, opTranslation,
                                  gqTranslation, gqReversed, notEnabled)
        l       == sub(p \o <<"L">>)
        r       == sub(p \o <<"R">>)
    IN  IF root.Type = "Operator"
        THEN IF root.Value = <<"and">>
             THEN [db  |-> IF notEnabled THEN OrSub(WhereSub(db, l), r)
                           ELSE WhereSub(WhereSub(db, l), r),
                   err |-> NilError]
             ELSE IF root.Value = <<"or">>
             THEN [db  |-> IF notEnabled THEN WhereSub(WhereSub(db, l), r)
                           ELSE OrSub(WhereSub(db, l), r),
                   err |-> NilError]
             ELSE IF Key(root.Value) \in CompareOps
             THEN buildComparison(tree, p, db, databaseType, opTranslation, gqTranslation)
             ELSE IF Key(root.Value) \in StringOps
             THEN buildStringPredicate(tree, p, db, databaseType, gqTranslation, notEnabled)
             ELSE [db |-> db, err |-> NilError]
        ELSE IF root.Type = "UnaryOperator"
        THEN IF root.Value # <<"not">>
             THEN [db |-> db, err |-> InvalidQueryError(
                     <<"root level operators other then 'not' are not supported">>)]
             ELSE buildGormQuery(tree, p \o <<"L">>, db, databaseType,
                                 operatorTranslationReversed, gqReversed, gqReversed, TRUE)
        ELSE [db |-> db, err |-> InvalidQueryError(<<"unknown query type">>)]


-----------------------------------------------------------------------------
(* Syntax trees as the parser builds them                                   *)

LeftOperand(value) == Node("LeftOperand", value, NilNode, NilNode)

RightOperand(value) == Node("RightOperand", value, NilNode, NilNode)

UnaryOperator(name, child) == Node("UnaryOperator", <<name>>, child, NilNode)

Operator(name, left, right) == Node("Operator", <<name>>, left, right)


-----------------------------------------------------------------------------
(* validateQuery and columnNames                                            *)

\* columnNames: one column per struct field, the `column:` setting of its
\* gorm tag when it has one, else the naming strategy's column name.
columnNames(model) ==
    {IF f.column # <<>> THEN f.column ELSE columnTranslation(f.Name) :
        f \in {model[i] : i \in 1..Len(model)}}

\* checkedColumn without the cut at the first "/"
checkedColumnWholePath(value) == columnTranslation(value)

\* the column a LeftOperand is checked as: the naming strategy applied to the
\* whole value, then the text before the first "/"
checkedColumn(value) ==
    LET columnName == columnTranslation(value)
    IN  IF Contains(columnName, "/") THEN Split(columnName, "/")[1] ELSE columnName

depthError(depth, maxTreeDepth) ==
    InvalidQueryError(<<"maximum query complexity exceeded: ", ToString(depth),
                        " > ", ToString(maxTreeDepth)>>)

unknownColumnError(columnName) ==
    InvalidQueryError(<<"unknown column name '">> \o columnName \o <<"'">>)

\* currentNode.Parent.Value read on the root, whose Parent is nil: the run-time
\* panic that ends the call
NilDereference ==
    [kind |-> "panic",
     Msg  |-> <<"runtime error: invalid memory address or nil pointer dereference">>]

\* the state of validateQuery's loop when it is entered
validateStart ==
    [currentNode |-> <<>>, depth |-> 0, nodesVisited |-> {},
     returned |-> FALSE, err |-> NilError]

\* one iteration of the loop of validateQuery (the loop test included)
validateStep(tree, maxTreeDepth, columnNamesList, st) ==
    LET cur   == st.currentNode
        node  == NodeAt(tree, cur)
        left  == cur \o <<"L">>
        right == cur \o <<"R">>
        inner == node.Type \in {"Operator", "UnaryOperator"}
    IN  IF cur \in st.nodesVisited
        THEN [st EXCEPT !.returned = TRUE]
        ELSE IF maxTreeDepth > 0 /\ st.depth > maxTreeDepth
        THEN [st EXCEPT !.returned = TRUE, !.err = depthError(st.depth, maxTreeDepth)]
        ELSE IF inner /\ node.LeftChild.Type # "nil" /\ left \notin st.nodesVisited
        THEN [st EXCEPT !.currentNode = left, !.depth = @ + 1]
        ELSE IF inner /\ node.RightChild.Type # "nil" /\ right \notin st.nodesVisited
        THEN [st EXCEPT !.currentNode = right, !.depth = @ + 1]
        ELSE IF node.Type = "LeftOperand" /\ cur = <<>>
        THEN [st EXCEPT !.returned = TRUE, !.err = NilDereference]
        ELSE IF /\ node.Type = "LeftOperand"
                /\ NodeAt(tree, ParentPath(cur)).Value # <<"concat">>
                /\ checkedColumn(node.Value) \notin columnNamesList
        THEN [st EXCEPT !.returned = TRUE,
                        !.err = unknownColumnError(checkedColumn(node.Value))]
        ELSE IF cur # <<>>
        THEN [st EXCEPT !.nodesVisited = @ \cup {cur},
                        !.currentNode = ParentPath(cur), !.depth = @ - 1]
        ELSE [st EXCEPT !.nodesVisited = @ \cup {cur}]

RECURSIVE validateLoop(_, _, _, _)
validateLoop(tree, maxTreeDepth, columnNamesList, st) ==
    IF st.returned THEN st.err
    ELSE validateLoop(tree, maxTreeDepth, columnNamesList,
                      validateStep(tree, maxTreeDepth, columnNamesList, st))

\* validateQuery with the depth test left out
validateQueryNoDepth(tree, maxTreeDepth, columnNamesList) ==
    validateLoop(tree, 0, columnNamesList, validateStart)

validateQuery(tree, maxTreeDepth, columnNamesList) ==
    validateLoop(tree, maxTreeDepth, columnNamesList, validateStart)

-----------------------------------------------------------------------------
(* checkDbPlugins                                                           *)

NoPlugin == [registered |-> FALSE]

\* gormqonvert.New(config), registered
QonvertPlugin(config) == [registered |-> TRUE, config |-> config]

\* the CharacterConfig built from the two package tables (lines 723-731)
configOfTables(gq, gqReversed) ==
    [GreaterThanPrefix      |-> gq["gt"],
     GreaterOrEqualToPrefix |-> gq["ge"],
     LessThanPrefix         |-> gq["lt"],
     LessOrEqualToPrefix    |-> gq["le"],
     NotEqualToPrefix       |-> gq["ne"],
     LikePrefix             |-> gq["contains"],
     NotLikePrefix          |-> gqReversed["contains"]]

\* lines 698-705: the forward table overwritten from the plugin's config
forwardFromConfig(gq, c) ==
    [gq EXCEPT !["gt"] = c.GreaterThanPrefix, !["ge"] = c.GreaterOrEqualToPrefix,
               !["lt"] = c.LessThanPrefix,    !["le"] = c.LessOrEqualToPrefix,
               !["ne"] = c.NotEqualToPrefix,  !["contains"] = c.LikePrefix,
               !["startswith"] = c.LikePrefix, !["endswith"] = c.LikePrefix]

\* lines 710-717: the reversed table overwritten from the plugin's config
reversedFromConfig(gqReversed, c) ==
    [gqReversed EXCEPT
               !["gt"] = c.LessThanPrefix,    !["ge"] = c.LessOrEqualToPrefix,
               !["lt"] = c.GreaterThanPrefix, !["le"] = c.GreaterOrEqualToPrefix,
               !["ne"] = <<>>,                !["contains"] = c.NotLikePrefix,
               !["startswith"] = c.NotLikePrefix, !["endswith"] = c.NotLikePrefix]

FwdKey == "gormqonvertTranslation"
RevKey == "gormqonvertTranslationReversed"

\* cacheGormqonvertTranslationMap.Store(key, table)
CacheStore(cache, key, table) == [cache EXCEPT ![key] = [ok |-> TRUE, table |-> table]]

EmptyCache == [key \in {FwdKey, RevKey} |-> [ok |-> FALSE]]

\* checkDbPlugins on a builder whose plugin registry is pl, with the package
\* tables gq and gqReversed and the cache: the registry, tables and cache
\* after it.  db.Use is taken to succeed for a plugin that was absent.
checkDbPlugins(pl, gq, gqReversed, cache) ==
    LET deep == TRUE
    IN  IF pl.gormqonvert.registered
        THEN LET c    == pl.gormqonvert.config
                 fwd  == IF ~cache[FwdKey].ok THEN forwardFromConfig(gq, c)
                         ELSE cache[FwdKey].table
                 rev  == IF ~cache[RevKey].ok THEN reversedFromConfig(gqReversed, c)
                         ELSE cache[RevKey].table
             IN  [plugins |-> [pl EXCEPT !.deepgorm = deep],
                  gq |-> fwd, gqReversed |-> rev,
                  cache |-> IF ~cache[RevKey].ok THEN CacheStore(cache, RevKey, rev)
                            ELSE cache,
                  err |-> NilError]
        ELSE [plugins |-> [deepgorm |-> deep,
                           gormqonvert |-> QonvertPlugin(configOfTables(gq, gqReversed))],
              gq |-> gq, gqReversed |-> gqReversed,
              cache |-> CacheStore(CacheStore(cache, FwdKey, gq), RevKey, gqReversed),
              err |-> NilError]


-----------------------------------------------------------------------------
(* Inputs: identifiers, literals, models, builders and syntax trees         *)

MaxSegments == 3       \* longest navigation path, in segments
MaxChain == 2          \* longest unary-function chain
MaxTreeDepthArg == 2   \* largest maxTreeDepth argument

name == <<"n", "a", "m", "e">>
tVal == <<"t", "V", "a", "l">>
meta == <<"m", "e", "t", "a">>
tag  == <<"t", "a", "g">>
evil == <<"e", "v", "i", "l">>

litA    == <<"'", "a", "'">>
litPct  == <<"'", "a", "%", "'">>
lit5    == <<"5">>
litQ5   == <<"'", "5", "'">>
litIn   == <<"'", "a", "'", "b", "'">>
litGt   == <<"'", ">", "5", "'">>

\* meta/tVal, meta/tag/tVal, ...: a navigation path of k segments
RECURSIVE NavPath(_)
NavPath(k) == IF k = 1 THEN tVal
              ELSE (IF k = 2 THEN meta ELSE tag) \o <<"/">> \o NavPath(k - 1)

NavPaths ==
    {NavPath(k) : k \in 2..MaxSegments}
    \cup {evil \o <<"/">> \o name, tVal \o <<"/">> \o name}

\* struct MockModel {Name; TVal; Meta `gorm:"column:meta"`}
MockModel ==
    << [Name |-> <<"N", "a", "m", "e">>, column |-> <<>>],
       [Name |-> <<"T", "V", "a", "l">>, column |-> <<>>],
       [Name |-> <<"M", "e", "t", "a", "D", "a", "t", "a">>, column |-> meta] >>

\* struct NameModel {Name}
NameModel == << [Name |-> <<"N", "a", "m", "e">>, column |-> <<>>] >>

\* the (model, maxTreeDepth) arguments of a validation
ValidationArgs ==
    {[model |-> MockModel, maxTreeDepth |-> n] : n \in 0..MaxTreeDepthArg}
    \cup {[model |-> NameModel, maxTreeDepth |-> 0]}

\* the CharacterConfig of Test_BuildQuery_SuccessCustomPluginConfig
CustomConfig ==
    [GreaterThanPrefix      |-> <<"+">>,
     GreaterOrEqualToPrefix |-> <<"+", "=">>,
     LessThanPrefix         |-> <<"-">>,
     LessOrEqualToPrefix    |-> <<"-", "=">>,
     NotEqualToPrefix       |-> <<"/", "=">>,
     LikePrefix             |-> <<":", ":">>,
     NotLikePrefix          |-> <<"!", ":", ":">>]

NoPlugins == [deepgorm |-> FALSE, gormqonvert |-> NoPlugin]

CustomPlugins == [deepgorm |-> TRUE, gormqonvert |-> QonvertPlugin(CustomConfig)]

\* a predicate the caller attached before the call: db.Where("del = ?", 0)
PriorExpr == [k |-> "expr", SQL |-> <<"d", "e", "l", " ", "=", " ?">>, Vars |-> <<IntVal(0)>>]

\* the builder the caller passes: its predicates and its plugin registry
Builders ==
    { [db |-> [where |-> <<>>],          plugins |-> NoPlugins],
      [db |-> [where |-> <<>>],          plugins |-> CustomPlugins],
      [db |-> [where |-> <<PriorExpr>>], plugins |-> NoPlugins] }

AllOps == CompareOps \cup StringOps

ChainFuncs == {"length", "year"}

RECURSIVE Chains(_, _)
Chains(k, arg) ==
    IF k = 0 THEN {arg}
    ELSE {UnaryOperator(f, c) : f \in ChainFuncs, c \in Chains(k - 1, arg)}

SimpleLefts == {name, tVal, evil, litA} \cup NavPaths

ConcatLefts ==
    { Operator("concat", LeftOperand(name), RightOperand(litA)),
      Operator("concat", LeftOperand(litA), RightOperand(evil)),
      Operator("concat", LeftOperand(name),
               Operator("concat", LeftOperand(tVal), RightOperand(litA))),
      Operator("concat", UnaryOperator("length", LeftOperand(tVal)), RightOperand(name)) }

ComplexLefts ==
    UNION {Chains(k, LeftOperand(tVal)) : k \in 1..MaxChain}
    \cup { UnaryOperator("length", LeftOperand(evil)),
           UnaryOperator("length", Operator("concat", LeftOperand(name), RightOperand(litA))) }
    \cup ConcatLefts

\* right operands that are no literal
OtherRights ==
    { UnaryOperator("tolower", LeftOperand(name)),
      Operator("concat", LeftOperand(name), RightOperand(litA)),
      RightOperand(evil) }

SimplePredicates(lits) ==
    {Operator(op, LeftOperand(l), RightOperand(r)) :
        op \in AllOps, l \in SimpleLefts, r \in lits}

ComplexPredicates(ops, lits) ==
    {Operator(op, l, RightOperand(r)) : op \in ops, l \in ComplexLefts, r \in lits}

OddPredicates ==
    {Operator(op, LeftOperand(l), r) :
        op \in {"eq", "contains"}, l \in {name, NavPath(2)}, r \in OtherRights}
    \cup {Operator(op, LeftOperand(l), RightOperand(litQ5)) :
        op \in {"eq", "gt"}, l \in {name, NavPath(2)}}
    \cup {Operator(op, LeftOperand(l), RightOperand(litIn)) :
        op \in {"eq", "contains"}, l \in {name, NavPath(2)}}
    \cup {Operator("eq", LeftOperand(NavPath(2)), RightOperand(litGt))}
    \cup {Operator("lt", LeftOperand(name), r) :
        r \in {UnaryOperator("tolower", LeftOperand(name)),
               Operator("concat", LeftOperand(name), RightOperand(litA))}}

Predicates ==
    SimplePredicates({litA, litPct, lit5})
    \cup ComplexPredicates({"eq", "gt", "contains"}, {litA, lit5})
    \cup OddPredicates

\* the terms the connective trees are built from
Terms ==
    { Operator("eq", LeftOperand(name), RightOperand(litA)),
      Operator("ge", LeftOperand(NavPath(2)), RightOperand(lit5)),
      Operator("eq", LeftOperand(name), UnaryOperator("tolower", LeftOperand(name))),
      Operator("startswith", LeftOperand(tVal), RightOperand(litPct)),
      Operator("lt", LeftOperand(evil), RightOperand(lit5)) }

FewTerms ==
    { Operator("eq", LeftOperand(name), RightOperand(litA)),
      Operator("ge", LeftOperand(NavPath(2)), RightOperand(lit5)),
      Operator("eq", LeftOperand(name), UnaryOperator("tolower", LeftOperand(name))) }

Not(t) == UnaryOperator("not", t)

Children ==
    Terms \cup {Not(t) : t \in Terms}
    \cup {UnaryOperator("length", LeftOperand(name)), LeftOperand(name)}

Connectives ==
    {Operator(c, l, r) : c \in {"and", "or"}, l \in Children, r \in FewTerms}
    \cup {Operator(c, l, r) : c \in {"and", "or"}, l \in FewTerms, r \in Children}

Nested ==
    {Operator(c, p, Operator(d, q, r)) :
        c \in {"and", "or"}, d \in {"and", "or"},
        p \in FewTerms, q \in FewTerms, r \in FewTerms}

Trees ==
    Predicates
    \cup {Not(p) : p \in SimplePredicates({litA})}
    \cup {Not(p) : p \in ComplexPredicates({"eq"}, {litA})}
    \cup {Not(p) : p \in OddPredicates}
    \cup Connectives
    \cup {Not(Operator(c, l, r)) : c \in {"and", "or"}, l \in Terms, r \in Terms}
    \cup Nested
    \cup {Not(Operator(c, p, Operator(d, q, r))) :
            c \in {"and", "or"}, d \in {"and", "or"},
            p \in FewTerms, q \in {Operator("eq", LeftOperand(name), RightOperand(litA))},
            r \in FewTerms}
    \cup {Not(Not(t)) : t \in Terms}
    \cup { UnaryOperator("length", LeftOperand(name)),
           Not(UnaryOperator("length", LeftOperand(name))),
           Operator("concat", LeftOperand(name), RightOperand(litA)),
           Not(LeftOperand(name)),
           LeftOperand(name) }

\* what tree.ConstructTree(query) leaves: the tree, or a parse error
ParseError(cause) == [kind |-> "ParseError", Msg |-> <<"failed to parse query: ">> \o cause]

Queries ==
    {[Root |-> t, err |-> NilError] : t \in Trees}
    \cup {[Root |-> NilNode, err |-> ParseError(<<"missing closing bracket ')'">>)]}

RECURSIVE HasUnary(_)
HasUnary(node) ==
    /\ node.Type \notin {"nil", "LeftOperand", "RightOperand"}
    /\ \/ node.Type = "UnaryOperator" /\ node.Value # <<"not">>
       \/ HasUnary(node.LeftChild)
       \/ HasUnary(node.RightChild)

\* The dialect is read by buildUnaryFuncChain alone: it is varied for the
\* trees that hold a unary function.
Dialects(query) == IF HasUnary(query.Root) THEN DbTypes ELSE {"SQLite"}

Inputs ==
    UNION {
      {[query |-> q, db |-> b.db, plugins |-> b.plugins, databaseType |-> d,
        model |-> v.model, maxTreeDepth |-> v.maxTreeDepth] :
          b \in Builders, d \in Dialects(q), v \in ValidationArgs}
      : q \in Queries}

-----------------------------------------------------------------------------
(* The public entry points.  One build call (BuildQuery or                  *)
(* BuildQueryWithValidation) and one ValidQuery call are made on the same   *)
(* arguments, in either order.                                              *)

NoCall == [op |-> "none"]

\* tree.ConstructTree(query)
ConstructTree(query) == [Root |-> query.Root, err |-> query.err]

\* the result of a build call: the builder and error returned, the builder
\* and registry received, and whether validateQuery / buildGormQuery ran
BuildResult(op, db, err, validated, emitted) ==
    [op |-> op, db |-> db, err |-> err, validated |-> validated,
     emitted |-> emitted, received |-> [db |-> input.db, plugins |-> plugins]]

\* the body of BuildQuery after checkDbPlugins returned boot
buildQueryBody(in, boot) ==
    LET tree  == ConstructTree(in.query)
        built == buildGormQuery(tree.Root, <<>>, in.db, in.databaseType,
                                operatorTranslation, boot.gq, boot.gqReversed, FALSE)
    IN  IF boot.err # NilError THEN BuildResult("BuildQuery", in.db, boot.err, FALSE, FALSE)
        ELSE IF tree.err # NilError
        THEN BuildResult("BuildQuery", in.db, tree.err, FALSE, FALSE)
        ELSE BuildResult("BuildQuery", built.db, built.err, FALSE, TRUE)

\* BuildQueryWithValidation that emits without consulting validateQuery
buildQueryWithValidationUnchecked(in, boot) ==
    LET tree  == ConstructTree(in.query)
        built == buildGormQuery(tree.Root, <<>>, in.db, in.databaseType,
                                operatorTranslation, boot.gq, boot.gqReversed, FALSE)
    IN  IF tree.err # NilError
        THEN BuildResult("BuildQueryWithValidation", in.db, tree.err, FALSE, FALSE)
        ELSE BuildResult("BuildQueryWithValidation", built.db, built.err, FALSE, TRUE)

\* BuildQueryWithValidation that emits first and validates afterwards
buildQueryWithValidationLate(in, boot) ==
    LET tree  == ConstructTree(in.query)
        verr  == validateQuery(tree.Root, in.maxTreeDepth, columnNames(in.model))
        built == buildGormQuery(tree.Root, <<>>, in.db, in.databaseType,
                                operatorTranslation, boot.gq, boot.gqReversed, FALSE)
    IN  IF tree.err # NilError
        THEN BuildResult("BuildQueryWithValidation", in.db, tree.err, FALSE, FALSE)
        ELSE IF verr # NilError
        THEN BuildResult("BuildQueryWithValidation", built.db, verr, TRUE, TRUE)
        ELSE BuildResult("BuildQueryWithValidation", built.db, built.err, TRUE, TRUE)

\* the body of BuildQueryWithValidation after checkDbPlugins returned boot
buildQueryWithValidationBody(in, boot) ==
    LET tree  == ConstructTree(in.query)
        verr  == validateQuery(tree.Root, in.maxTreeDepth, columnNames(in.model))
        built == buildGormQuery(tree.Root, <<>>, in.db, in.databaseType,
                                operatorTranslation, boot.gq, boot.gqReversed, FALSE)
    IN  IF boot.err # NilError
        THEN BuildResult("BuildQueryWithValidation", in.db, boot.err, FALSE, FALSE)
        ELSE IF tree.err # NilError
        THEN BuildResult("BuildQueryWithValidation", in.db, tree.err, FALSE, FALSE)
        ELSE IF verr # NilError
        THEN BuildResult("BuildQueryWithValidation", in.db, verr, TRUE, FALSE)
        ELSE BuildResult("BuildQueryWithValidation", built.db, built.err, TRUE, TRUE)

\* the body of ValidQuery
validQueryBody(in) ==
    LET tree == ConstructTree(in.query)
    IN  IF tree.err # NilError THEN [op |-> "ValidQuery", err |-> tree.err]
        ELSE [op  |-> "ValidQuery",
              err |-> validateQuery(tree.Root, in.maxTreeDepth, columnNames(in.model))]

Bootstrap ==
    checkDbPlugins(plugins, gormqonvertTranslation, gormqonvertTranslationReversed,
                   cacheGormqonvertTranslationMap)

Bootstrapped(boot) ==
    /\ plugins' = boot.plugins
    /\ gormqonvertTranslation' = boot.gq
    /\ gormqonvertTranslationReversed' = boot.gqReversed
    /\ cacheGormqonvertTranslationMap' = boot.cache

Init ==
    /\ gormqonvertTranslation = gormqonvertTranslationInit
    /\ gormqonvertTranslationReversed = gormqonvertTranslationReversedInit
    /\ cacheGormqonvertTranslationMap = EmptyCache
    /\ input \in Inputs
    /\ plugins = input.plugins
    /\ pc = "ready"
    /\ ret = [build |-> NoCall, valid |-> NoCall]

BuildQuery ==
    /\ pc = "ready"
    /\ Bootstrapped(Bootstrap)
    /\ ret' = [ret EXCEPT !.build = buildQueryBody(input, Bootstrap)]
    /\ pc' = "done"
    /\ UNCHANGED input

BuildQueryWithValidation ==
    /\ pc = "ready"
    /\ Bootstrapped(Bootstrap)
    /\ ret' = [ret EXCEPT !.build = buildQueryWithValidationBody(input, Bootstrap)]
    /\ pc' = "done"
    /\ UNCHANGED input

ValidQuery ==
    /\ ret.valid = NoCall
    /\ ret' = [ret EXCEPT !.valid = validQueryBody(input)]
    /\ UNCHANGED <<gormqonvertTranslation, gormqonvertTranslationReversed,
                   cacheGormqonvertTranslationMap, plugins, input, pc>>

Next == BuildQuery \/ BuildQueryWithValidation \/ ValidQuery

Spec == Init /\ [][Next]_vars


-----------------------------------------------------------------------------
(* Vocabulary of the properties                                             *)

\* the paths of the nodes of a tree
RECURSIVE PathsFrom(_, _)
PathsFrom(node, p) ==
    IF node.Type = "nil" THEN {}
    ELSE {p} \cup PathsFrom(node.LeftChild, p \o <<"L">>)
             \cup PathsFrom(node.RightChild, p \o <<"R">>)

Paths(root) == PathsFrom(root, <<>>)

IsOperand(node) == node.Type \in {"LeftOperand", "RightOperand"}

\* a single-quoted string or a base-10 integer
IsLiteral(value) == Contains(value, "'") \/ AtoiOk(value)

\* the nodes buildGormQuery is applied to: the root, the children of and / or
\* and the child of not
RECURSIVE EmitPathsFrom(_, _)
EmitPathsFrom(tree, p) ==
    LET node == NodeAt(tree, p)
    IN  {p} \cup
        (IF node.Type = "Operator" /\ Key(node.Value) \in {"and", "or"}
         THEN EmitPathsFrom(tree, p \o <<"L">>) \cup EmitPathsFrom(tree, p \o <<"R">>)
         ELSE IF node.Type = "UnaryOperator" /\ node.Value = <<"not">>
         THEN EmitPathsFrom(tree, p \o <<"L">>)
         ELSE {})

EmitPaths(tree) == EmitPathsFrom(tree, <<>>)

\* the expressions of a WHERE list, groups opened
RECURSIVE Leaves(_)
Leaves(exprs) ==
    IF exprs = <<>> THEN {}
    ELSE (IF Head(exprs).k \in {"and", "or"} THEN Leaves(Head(exprs).Exprs)
          ELSE {Head(exprs)})
         \cup Leaves(Tail(exprs))

Build == ret.build

Built(op) == Build.op = op

BuildCalled == Build.op # "none"

\* the call returned a nil error
Accepted == BuildCalled /\ Build.err = NilError

\* the expressions the call attached to the builder it received
Added == SubSeq(Build.db.where, Len(input.db.where) + 1, Len(Build.db.where))

Fragments == {e \in Leaves(Added) : e.k = "expr"}

Root == input.query.Root

Unquoted(value) == ReplaceAll(value, "'", <<>>)

\* a bound parameter or nested-map leaf that carries the text of a literal
RECURSIVE MapLeaf(_)
MapLeaf(m) ==
    LET key == CHOOSE x \in DOMAIN m : TRUE
    IN  IF m[key].t = "map" THEN MapLeaf(m[key].v) ELSE m[key].v

Carries(e, value) ==
    \/ /\ e.k = "expr"
       /\ \/ e.Vars[1] = IntVal(IF AtoiOk(Unquoted(value)) THEN Atoi(Unquoted(value)) ELSE 0)
             /\ AtoiOk(Unquoted(value))
          \/ e.Vars[1].t = "string"
             /\ IsSubstring(Unquoted(value), ReplaceAll(e.Vars[1].v, "\\", <<>>))
    \/ /\ e.k = "map"
       /\ IsSubstring(Unquoted(value), ReplaceAll(MapLeaf(e.m), "\\", <<>>))

-----------------------------------------------------------------------------
\* C1  Parameter isolation: when BuildQuery accepts a filter, every literal of
\* the tree (quoted string or integer, in whatever operand position) is
\* handed over as a bound parameter or map leaf and is in no SQL fragment.
C1_ParameterIsolation ==
    (Built("BuildQuery") /\ Accepted) =>
        \A p \in Paths(Root) :
            LET node == NodeAt(Root, p)
            IN  (IsOperand(node) /\ IsLiteral(node.Value)) =>
                    /\ \A e \in Fragments : ~IsSubstring(node.Value, e.SQL)
                    /\ \E e \in Leaves(Added) : Carries(e, node.Value)

-----------------------------------------------------------------------------
\* the operands whose text the emitter inlines as an identifier: every
\* unquoted operand except the right operand of a comparison or string
\* predicate
IdentifierAt(tree, p) ==
    LET node   == NodeAt(tree, p)
        parent == NodeAt(tree, ParentPath(p))
    IN  /\ IsOperand(node)
        /\ ~Contains(node.Value, "'")
        /\ ~(Key(parent.Value) \in AllOps /\ p[Len(p)] = "R")

\* C2  Identifier isolation: when BuildQueryWithValidation accepts a filter
\* against a model, every identifier inlined into an SQL fragment is a column
\* of the model (its leftmost segment, for a navigation path).
C2_IdentifierIsolation ==
    (Built("BuildQueryWithValidation") /\ Accepted) =>
        \A p \in Paths(Root) \ {<<>>} :
            (/\ IdentifierAt(Root, p)
             /\ \E e \in Fragments :
                    IsSubstring(columnTranslation(NodeAt(Root, p).Value), e.SQL))
            => columnTranslation(Split(NodeAt(Root, p).Value, "/")[1])
                  \in columnNames(input.model)

-----------------------------------------------------------------------------
\* the error buildGormQuery returns when it is applied to the node at p
RejectionAt(tree, p) ==
    buildGormQuery(tree, p, [where |-> <<>>], input.databaseType, operatorTranslation,
                   gormqonvertTranslation, gormqonvertTranslationReversed, FALSE).err

\* C4  Error propagation: when the emitter rejects a node of the tree, at
\* whatever depth, the build call returns that error.
C4_ErrorPropagation ==
    (BuildCalled /\ Build.emitted) =>
        \A p \in EmitPaths(Root) :
            RejectionAt(Root, p) # NilError => Build.err = RejectionAt(Root, p)

-----------------------------------------------------------------------------
\* C5  Builder unchanged on error: a build call that returns an error has
\* attached no predicate and has not changed the registered plugins.
C5_BuilderUnchangedOnError ==
    (BuildCalled /\ Build.err # NilError) =>
        /\ Build.db = Build.received.db
        /\ plugins = Build.received.plugins

\* the registry after the bootstrap of a build call: what was registered
\* stays, the deep-filter plugin and a prefix-value plugin are registered
BootstrappedFrom(before, after) ==
    /\ after.deepgorm
    /\ after.gormqonvert.registered
    /\ before.gormqonvert.registered => after.gormqonvert = before.gormqonvert

\* C5 (amended)  A build call that returns an error has attached no predicate;
\* of the plugins it changes nothing but to register the two that were absent.
C5_NoPredicateOnError ==
    (BuildCalled /\ Build.err # NilError) =>
        /\ Build.db = Build.received.db
        /\ BootstrappedFrom(Build.received.plugins, plugins)

\* an invalid-query error came back from a build call on a builder that
\* carried a predicate
C5_Witness ==
    /\ BuildCalled
    /\ Build.err.kind = "InvalidQueryError"
    /\ Build.emitted
    /\ Build.received.db.where # <<>>

-----------------------------------------------------------------------------
Valid == ret.valid

\* ValidQuery was called on a filter that parsed
Validated == Valid.op = "ValidQuery" /\ input.query.err = NilError

IsDepthError(e) ==
    e.kind = "InvalidQueryError" /\ e.Msg[1] = "maximum query complexity exceeded: "

IsUnknownColumnError(e) ==
    e.kind = "InvalidQueryError" /\ e.Msg[1] = "unknown column name '"

\* p comes before q in the left-first traversal of a tree
Before(p, q) ==
    \/ Len(p) < Len(q) /\ SubSeq(q, 1, Len(p)) = p
    \/ \E i \in 1..Len(p) :
          /\ i <= Len(q)
          /\ SubSeq(p, 1, i - 1) = SubSeq(q, 1, i - 1)
          /\ p[i] = "L" /\ q[i] = "R"

First(paths) == CHOOSE p \in paths : \A q \in paths \ {p} : Before(p, q)

\* the operands the whitelist is about: left operands whose parent is no concat
CheckedOperands(tree) ==
    {p \in Paths(tree) :
        /\ NodeAt(tree, p).Type = "LeftOperand"
        /\ NodeAt(tree, ParentPath(p)).Value # <<"concat">>}

\* the column an operand names: the naming strategy applied to its leftmost
\* segment
ColumnOf(value) == columnTranslation(Split(value, "/")[1])

UnknownOperands(tree, model) ==
    {p \in CheckedOperands(tree) : ColumnOf(NodeAt(tree, p).Value) \notin columnNames(model)}

\* the nodes more than max edges below the root
Deeper(tree, max) == {p \in Paths(tree) : Len(p) > max}

\* C6  Validation gates emission: BuildQueryWithValidation returns a
\* validation error exactly when ValidQuery returns one on the same
\* arguments; it is the same error, nothing was emitted and no predicate was
\* attached; the emitter never runs before the validator has.
C6_ValidationGatesEmission ==
    (Built("BuildQueryWithValidation") /\ Valid.op = "ValidQuery") =>
        /\ (Valid.err.kind = "InvalidQueryError")
              <=> (Build.err.kind = "InvalidQueryError" /\ ~Build.emitted)
        /\ (Valid.err.kind = "InvalidQueryError") =>
              /\ Build.err = Valid.err
              /\ Build.validated
              /\ Build.db = Build.received.db
        /\ Build.emitted => (Build.validated /\ Valid.err = NilError)

\* both calls were made and the validator rejected the filter
C6_Witness ==
    /\ Built("BuildQueryWithValidation")
    /\ Valid.op = "ValidQuery"
    /\ Valid.err.kind = "InvalidQueryError"
    /\ Build.err = Valid.err
    /\ Build.received.db.where # <<>>

\* C7  Depth cap: on a tree whose column references are all known and with
\* maxTreeDepth > 0, the validator returns the depth error exactly when a node
\* lies more than maxTreeDepth edges below the root, and reports the depth of
\* the first such node of the left-first traversal; with maxTreeDepth = 0 it
\* never returns the depth error.
C7_DepthCap ==
    Validated =>
        LET max  == input.maxTreeDepth
            deep == Deeper(Root, max)
        IN  /\ max = 0 => ~IsDepthError(Valid.err)
            /\ (max > 0 /\ UnknownOperands(Root, input.model) = {}) =>
                  /\ IsDepthError(Valid.err) <=> deep # {}
                  /\ deep # {} => Valid.err = depthError(Len(First(deep)), max)

\* a tree of known columns was rejected for its depth, and its first node
\* beyond the cap is not on the leftmost branch alone
C7_Witness ==
    /\ Validated
    /\ input.maxTreeDepth > 0
    /\ UnknownOperands(Root, input.model) = {}
    /\ IsDepthError(Valid.err)
    /\ Cardinality(Deeper(Root, input.maxTreeDepth)) > 1

\* C8  Column whitelist: the validator returns nil only if every checked left
\* operand names a known column (by its leftmost segment, for a navigation
\* path); when one does not and no depth error came first, the error is the
\* unknown-column error of the first such operand in left-first order.
C8_ColumnWhitelist ==
    Validated =>
        LET unknown == UnknownOperands(Root, input.model)
        IN  /\ Valid.err = NilError => unknown = {}
            /\ IsUnknownColumnError(Valid.err) => unknown # {}
            /\ (unknown # {} /\ ~IsDepthError(Valid.err)) =>
                  Valid.err = unknownColumnError(ColumnOf(NodeAt(Root, First(unknown)).Value))

\* a navigation path with an unknown leftmost segment was rejected
C8_Witness ==
    /\ Validated
    /\ IsUnknownColumnError(Valid.err)
    /\ \E p \in UnknownOperands(Root, input.model) :
          /\ Contains(NodeAt(Root, p).Value, "/")
          /\ Valid.err = unknownColumnError(ColumnOf(NodeAt(Root, p).Value))

-----------------------------------------------------------------------------
(* The condition a list of WHERE expressions stands for, as gorm renders   *)
(* it: expressions are joined by AND, an Or(...) condition by OR, a group  *)
(* is parenthesised.  A fragment is read by its operator, a map is kept.   *)

IsConnective(node) == node.Type = "Operator" /\ Key(node.Value) \in {"and", "or"}

IsPredicate(node) == node.Type = "Operator" /\ Key(node.Value) \in AllOps

IsNot(node) == node.Type = "UnaryOperator" /\ node.Value = <<"not">>

\* a tree of connectives, nots and predicates none of which the emitter rejects
Clean(tree) ==
    \A p \in EmitPaths(tree) :
        /\ IsConnective(NodeAt(tree, p)) \/ IsPredicate(NodeAt(tree, p)) \/ IsNot(NodeAt(tree, p))
        /\ RejectionAt(tree, p) = NilError

\* the operator of a fragment: "LIKE", "NOT LIKE", or the text between the
\* left operand and the placeholder
Polarity(e) ==
    LET at(x) == {i \in 1..Len(e.SQL) : e.SQL[i] = x}
    IN  IF at(" NOT LIKE ?") # {} THEN <<"NOT LIKE">>
        ELSE IF at(" LIKE ?") # {} THEN <<"LIKE">>
        ELSE IF at(" ") = {} THEN <<>>
        ELSE LET i == CHOOSE k \in at(" ") : \A j \in at(" ") : j <= k
             IN  SubSeq(e.SQL, i + 1, Len(e.SQL) - 1)

RECURSIVE Read(_)
ReadOne(e) ==
    CASE e.k \in {"and", "or"} -> Read(e.Exprs)
      [] e.k = "map"           -> [f |-> "nested", m |-> e.m]
      [] e.k = "expr"          -> [f |-> "pred", pol |-> Polarity(e)]
      [] OTHER                 -> [f |-> "other"]

Read(exprs) ==
    IF Len(exprs) = 1 THEN ReadOne(exprs[1])
    ELSE IF Len(exprs) = 2 /\ exprs[1].k # "or"
    THEN [f |-> IF exprs[2].k = "or" THEN "or" ELSE "and",
          l |-> ReadOne(exprs[1]), r |-> ReadOne(exprs[2])]
    ELSE [f |-> "other"]

\* the part of a condition at the place of the tree node at p (p runs
\* through connectives only)
RECURSIVE PartAt(_, _)
PartAt(cond, p) ==
    IF p = <<>> THEN cond
    ELSE IF cond.f \notin {"and", "or"} THEN [f |-> "other"]
    ELSE PartAt(IF Head(p) = "L" THEN cond.l ELSE cond.r, Tail(p))

OutsideNot(tree, p) == \A i \in 0..(Len(p) - 1) : ~IsNot(NodeAt(tree, SubSeq(p, 1, i)))

IsQuoted(value) == Len(value) >= 2 /\ value[1] = "'" /\ value[Len(value)] = "'"

\* a predicate on a bare navigation path with a literal on the right
NavPredicateAt(tree, p) ==
    LET node == NodeAt(tree, p)
    IN  /\ IsPredicate(node)
        /\ node.LeftChild.Type = "LeftOperand"
        /\ Contains(node.LeftChild.Value, "/")
        /\ node.RightChild.Type = "RightOperand"
        /\ IF Key(node.Value) \in StringOps THEN IsQuoted(node.RightChild.Value)
           ELSE IsLiteral(node.RightChild.Value)

\* %T%, T% and %T, T being the text without quotes and with \% for %
PatternOf(op, literal) ==
    LET T == ReplaceAll(Unquoted(literal), "%", <<"\\", "%">>)
    IN  CASE op = "contains"   -> <<"%">> \o T \o <<"%">>
          [] op = "startswith" -> T \o <<"%">>
          [] op = "endswith"   -> <<"%">> \o T

\* the leaf of the nested filter of a predicate outside not; the prefix is
\* the one the forward prefix table holds for the operator
LeafOf(op, literal) ==
    IF op = "eq" THEN Unquoted(literal)
    ELSE IF op \in CompareOps THEN gormqonvertTranslation[op] \o Unquoted(literal)
    ELSE gormqonvertTranslation[op] \o PatternOf(op, literal)

RECURSIVE MapKeys(_)
MapKeys(m) ==
    LET key == CHOOSE x \in DOMAIN m : TRUE
    IN  <<key>> \o (IF m[key].t = "map" THEN MapKeys(m[key].v) ELSE <<>>)

RECURSIVE SingleKeyed(_)
SingleKeyed(m) ==
    /\ Cardinality(DOMAIN m) = 1
    /\ \A key \in DOMAIN m : m[key].t = "map" => SingleKeyed(m[key].v)

-----------------------------------------------------------------------------
\* the operator a predicate is emitted with, outside and inside not
Sign(op, negated) ==
    CASE op = "eq" -> IF negated THEN <<"!", "=">> ELSE <<"=">>
      [] op = "ne" -> IF negated THEN <<"=">> ELSE <<"!", "=">>
      [] op = "lt" -> IF negated THEN <<">", "=">> ELSE <<"<">>
      [] op = "le" -> IF negated THEN <<">">> ELSE <<"<", "=">>
      [] op = "gt" -> IF negated THEN <<"<", "=">> ELSE <<">">>
      [] op = "ge" -> IF negated THEN <<"<">> ELSE <<">", "=">>
      [] OTHER     -> IF negated THEN <<"NOT LIKE">> ELSE <<"LIKE">>

\* the condition a tree lowers to: connectives dualised and predicates
\* flipped below a not
RECURSIVE Lower(_, _, _)
Lower(tree, p, negated) ==
    LET node == NodeAt(tree, p)
    IN  IF IsNot(node) THEN Lower(tree, p \o <<"L">>, TRUE)
        ELSE IF IsConnective(node)
        THEN [f |-> IF negated THEN (IF node.Value = <<"and">> THEN "or" ELSE "and")
                    ELSE Key(node.Value),
              l |-> Lower(tree, p \o <<"L">>, negated),
              r |-> Lower(tree, p \o <<"R">>, negated)]
        ELSE IF Contains(node.LeftChild.Value, "/") THEN [f |-> "nested"]
        ELSE [f |-> "pred", pol |-> Sign(Key(node.Value), negated)]

\* a condition with its nested filters left unread
RECURSIVE Shape(_)
Shape(cond) ==
    IF cond.f \in {"and", "or"}
    THEN [f |-> cond.f, l |-> Shape(cond.l), r |-> Shape(cond.r)]
    ELSE IF cond.f = "nested" THEN [f |-> "nested"]
    ELSE cond

\* C10  Negation lowering: every non-navigation predicate below a not is
\* emitted with flipped polarity and nothing else is flipped: below a not,
\* and is an OR group and or an AND group of the flipped children, eq is !=,
\* ne is =, lt is >=, le is >, gt is <=, ge is <, and the string predicates
\* are NOT LIKE.
C10_NegationLowering ==
    (Accepted /\ Build.emitted /\ Clean(Root)) =>
        Shape(Read(Added)) = Lower(Root, <<>>, FALSE)

\* not over an and of a comparison and a string predicate was attached as
\* an OR of != and NOT LIKE
C10_Witness ==
    /\ Accepted
    /\ Build.emitted
    /\ Clean(Root)
    /\ IsNot(Root)
    /\ Root.LeftChild.Value = <<"and">>
    /\ Read(Added) = [f |-> "or", l |-> [f |-> "pred", pol |-> <<"!", "=">>],
                                  r |-> [f |-> "pred", pol |-> <<"NOT LIKE">>]]

-----------------------------------------------------------------------------
(* The truth of a condition on a row, in SQL's three-valued logic.  A row   *)
(* settles, for each operand pair a predicate compares, how the pair        *)
(* compares: "lt", "eq", "gt", or "null" when the column is NULL (for a     *)
(* pattern, "eq" is a match).  A nested filter is read as the prefix-value  *)
(* collaborator reads its leaf: a configured token in front is the          *)
(* comparison, no token is equality.                                        *)

Outcomes == {"lt", "eq", "gt", "null"}

\* the tokens of the prefix plugin registered on the builder, with the
\* operator each stands for
TokensOf(config) ==
    { [tok |-> config.GreaterOrEqualToPrefix, pol |-> <<">", "=">>],
      [tok |-> config.GreaterThanPrefix,      pol |-> <<">">>],
      [tok |-> config.LessOrEqualToPrefix,    pol |-> <<"<", "=">>],
      [tok |-> config.LessThanPrefix,         pol |-> <<"<">>],
      [tok |-> config.NotEqualToPrefix,       pol |-> <<"!", "=">>],
      [tok |-> config.NotLikePrefix,          pol |-> <<"NOT LIKE">>],
      [tok |-> config.LikePrefix,             pol |-> <<"LIKE">>] }

\* a prefix-encoded leaf as the collaborator reads it: the longest token in
\* front decides
LeafReading(leaf) ==
    LET hits == {t \in TokensOf(plugins.gormqonvert.config) :
                    t.tok # <<>> /\ HasPrefix(leaf, t.tok)}
    IN  IF hits = {} THEN [pol |-> <<"=">>, rest |-> leaf]
        ELSE LET t == CHOOSE x \in hits : \A y \in hits : Len(y.tok) <= Len(x.tok)
             IN  [pol |-> t.pol, rest |-> SubSeq(leaf, Len(t.tok) + 1, Len(leaf))]

\* the left operand text of a fragment
LeftText(e) ==
    LET at(x) == {i \in 1..Len(e.SQL) : e.SQL[i] = x}
        cut   == at(" NOT LIKE ?") \cup at(" LIKE ?") \cup at(" ")
    IN  IF cut = {} THEN e.SQL
        ELSE SubSeq(e.SQL, 1, (CHOOSE k \in cut : \A j \in cut : j <= k) - 1)

RECURSIVE Joined(_)
Joined(segments) ==
    IF Len(segments) = 1 THEN segments[1]
    ELSE segments[1] \o <<"/">> \o Joined(Tail(segments))

\* what a predicate compares (the operand and the value, as one text), and how
AtomOf(e) ==
    IF e.k = "map"
    THEN [key |-> Joined(MapKeys(e.m)) \o <<" : ">> \o LeafReading(MapLeaf(e.m)).rest,
          pol |-> LeafReading(MapLeaf(e.m)).pol]
    ELSE [key |-> LeftText(e) \o <<" : ">>
                  \o (IF e.Vars[1].t = "int" THEN <<ToString(e.Vars[1].v)>>
                      ELSE e.Vars[1].v),
          pol |-> Polarity(e)]

Holds(pol, outcome) ==
    IF outcome = "null" THEN "U"
    ELSE LET yes == CASE pol = <<"=">>        -> outcome = "eq"
                      [] pol = <<"!", "=">>   -> outcome # "eq"
                      [] pol = <<"<">>        -> outcome = "lt"
                      [] pol = <<"<", "=">>   -> outcome \in {"lt", "eq"}
                      [] pol = <<">">>        -> outcome = "gt"
                      [] pol = <<">", "=">>   -> outcome \in {"gt", "eq"}
                      [] pol = <<"LIKE">>     -> outcome = "eq"
                      [] pol = <<"NOT LIKE">> -> outcome # "eq"
                      [] OTHER                -> FALSE
         IN  IF yes THEN "T" ELSE "F"

And3(a, b) == IF a = "F" \/ b = "F" THEN "F" ELSE IF a = "T" /\ b = "T" THEN "T" ELSE "U"

Or3(a, b) == IF a = "T" \/ b = "T" THEN "T" ELSE IF a = "F" /\ b = "F" THEN "F" ELSE "U"

Not3(a) == IF a = "T" THEN "F" ELSE IF a = "F" THEN "T" ELSE "U"

\* a WHERE list on a row: AND binds tighter than OR
RECURSIVE Eval(_, _)
EvalOne(e, row) ==
    IF e.k \in {"and", "or"} THEN Eval(e.Exprs, row)
    ELSE Holds(AtomOf(e).pol, row[AtomOf(e).key])

RECURSIVE Conj(_, _)
Conj(exprs, row) ==
    IF exprs = <<>> THEN "T"
    ELSE And3(EvalOne(Head(exprs), row), Conj(Tail(exprs), row))

Eval(exprs, row) ==
    LET ors == {i \in 2..Len(exprs) : exprs[i].k = "or"}
    IN  IF ors = {} THEN Conj(exprs, row)
        ELSE LET i == CHOOSE k \in ors : \A j \in ors : j <= k
             IN  Or3(Eval(SubSeq(exprs, 1, i - 1), row),
                     Conj(SubSeq(exprs, i, Len(exprs)), row))

\* what BuildQuery attaches for the subtree at p as a filter of its own
AttachedFor(tree, p) ==
    buildGormQuery(NodeAt(tree, p), <<>>, [where |-> <<>>], input.databaseType,
                   operatorTranslation, gormqonvertTranslation,
                   gormqonvertTranslationReversed, FALSE)

Predicative(exprs) == \A e \in Leaves(exprs) : e.k \in {"expr", "map"}

\* C3  De Morgan: for every subexpression E that BuildQuery accepts, the
\* predicate attached for not(E) has, on every row, the truth value of the
\* negation of the predicate attached for E.
C3_DeMorgan ==
    (Built("BuildQuery") /\ Accepted /\ IsNot(Root)) =>
        LET E    == AttachedFor(Root, <<"L">>)
            notE == Added
            keys == {AtomOf(e).key : e \in Leaves(E.db.where) \cup Leaves(notE)}
        IN  (/\ E.err = NilError
             /\ E.db.where # <<>>
             /\ Predicative(E.db.where)
             /\ Predicative(notE)) =>
                \A row \in [keys -> Outcomes] :
                    Eval(notE, row) = Not3(Eval(E.db.where, row))

-----------------------------------------------------------------------------
\* a not lies on the way to the node at p, or at p itself
BelowNot(tree, p) == \E i \in 0..Len(p) : IsNot(NodeAt(tree, SubSeq(p, 1, i)))

\* what the emitter attaches for the predicate at p taken alone, with the
\* polarity of its place in the tree
AttachedAlone(tree, p) ==
    buildGormQuery(tree, p, [where |-> <<>>], input.databaseType,
                   IF BelowNot(tree, p) THEN operatorTranslationReversed
                   ELSE operatorTranslation,
                   IF BelowNot(tree, p) THEN gormqonvertTranslationReversed
                   ELSE gormqonvertTranslation,
                   gormqonvertTranslationReversed, BelowNot(tree, p)).db.where

\* the truth on a row of the tree's grouping: each connective combines the
\* truth of its two children, dualised below a not
RECURSIVE TreeTruth(_, _, _)
TreeTruth(tree, p, row) ==
    LET node == NodeAt(tree, p)
        l    == TreeTruth(tree, p \o <<"L">>, row)
        r    == TreeTruth(tree, p \o <<"R">>, row)
    IN  IF IsNot(node) THEN l
        ELSE IF IsConnective(node)
        THEN IF (node.Value = <<"and">>) # BelowNot(tree, p) THEN And3(l, r) ELSE Or3(l, r)
        ELSE Eval(AttachedAlone(tree, p), row)

PredicatePaths(tree) == {p \in EmitPaths(tree) : IsPredicate(NodeAt(tree, p))}

\* C11  Grouping by detachment: the predicates of each child of an and / or
\* are emitted apart from those already on the parent builder and from the
\* sibling's, and attached as one group, so that the emitted condition is
\* grouped as the tree is: A and (B or C) is A AND (B OR C).
C11_GroupingByDetachment ==
    (Accepted /\ Build.emitted /\ Clean(Root)) =>
        LET keys == {AtomOf(e).key : e \in Leaves(Added)}
        IN  /\ Build.db.where = Build.received.db.where \o Added
            /\ \A p \in PredicatePaths(Root) :
                  Leaves(AttachedAlone(Root, p)) \subseteq Leaves(Added)
            /\ Cardinality(Leaves(Added)) <= Cardinality(PredicatePaths(Root))
            /\ \A row \in [keys -> Outcomes] :
                  Eval(Added, row) = TreeTruth(Root, <<>>, row)

\* A and (B or C) was attached to a builder that carried a predicate
C11_Witness ==
    /\ Accepted
    /\ Build.emitted
    /\ Clean(Root)
    /\ Build.received.db.where # <<>>
    /\ Root.Value = <<"and">>
    /\ Root.RightChild.Value = <<"or">>
    /\ Len(Added) = 2
    /\ Added[2].k = "and"
    /\ Len(Added[2].Exprs) = 2
    /\ Added[2].Exprs[2].k = "or"

-----------------------------------------------------------------------------
\* a comparison on something else than a navigation path, with a literal on
\* the right
PlainComparisonAt(tree, p) ==
    LET node == NodeAt(tree, p)
    IN  /\ IsPredicate(node)
        /\ Key(node.Value) \in CompareOps
        /\ ~Contains(node.LeftChild.Value, "/")
        /\ node.RightChild.Type = "RightOperand"
        /\ AtoiOk(node.RightChild.Value) \/ IsQuoted(node.RightChild.Value)

EndsWith(s, suffix) ==
    Len(suffix) <= Len(s) /\ SubSeq(s, Len(s) - Len(suffix) + 1, Len(s)) = suffix

\* C12  Comparison emission: a comparison whose left operand is no navigation
\* path makes one Where call with the fragment '<left> <op> ?' and one bound
\* parameter: an integer exactly when the literal is a base-10 integer
\* literal, and for a quoted literal the string between the outer quotes.
C12_ComparisonEmission ==
    (Accepted /\ Build.emitted /\ Clean(Root)) =>
        \A p \in PredicatePaths(Root) :
            PlainComparisonAt(Root, p) =>
                LET node    == NodeAt(Root, p)
                    literal == node.RightChild.Value
                    w       == AttachedAlone(Root, p)
                IN  /\ Len(w) = 1
                    /\ w[1] \in Leaves(Added)
                    /\ w[1].k = "expr"
                    /\ EndsWith(w[1].SQL, <<" ">> \o Sign(Key(node.Value), BelowNot(Root, p))
                                               \o <<" ?">>)
                    /\ Len(w[1].Vars) = 1
                    /\ w[1].Vars[1].t = "int" <=> AtoiOk(literal)
                    /\ AtoiOk(literal) => w[1].Vars[1] = IntVal(Atoi(literal))
                    /\ IsQuoted(literal) =>
                          w[1].Vars[1] = StrVal(SubSeq(literal, 2, Len(literal) - 1))

-----------------------------------------------------------------------------
\* a string predicate on something else than a navigation path, with a
\* quoted literal on the right
PlainStringPredicateAt(tree, p) ==
    LET node == NodeAt(tree, p)
    IN  /\ IsPredicate(node)
        /\ Key(node.Value) \in StringOps
        /\ ~Contains(node.LeftChild.Value, "/")
        /\ node.RightChild.Type = "RightOperand"
        /\ IsQuoted(node.RightChild.Value)

\* TEXT without its outer quotes and with \% for every %
EscapedText(literal) ==
    ReplaceAll(SubSeq(literal, 2, Len(literal) - 1), "%", <<"\\", "%">>)

\* C13  LIKE pattern assembly: for contains, startswith and endswith with the
\* right operand 'TEXT' the bound pattern is %T%, T% and %T, T being TEXT
\* without its outer quotes and with \% for every %; the added wildcards are
\* not escaped; the predicate is LIKE ? outside not and NOT LIKE ? inside.
C13_LikePatternAssembly ==
    (Accepted /\ Build.emitted /\ Clean(Root)) =>
        \A p \in PredicatePaths(Root) :
            PlainStringPredicateAt(Root, p) =>
                LET node == NodeAt(Root, p)
                    T    == EscapedText(node.RightChild.Value)
                    w    == AttachedAlone(Root, p)
                IN  /\ Len(w) = 1
                    /\ w[1] \in Leaves(Added)
                    /\ w[1].k = "expr"
                    /\ w[1].Vars = << StrVal(
                          CASE node.Value = <<"contains">>   -> <<"%">> \o T \o <<"%">>
                            [] node.Value = <<"startswith">> -> T \o <<"%">>
                            [] node.Value = <<"endswith">>   -> <<"%">> \o T) >>
                    /\ Polarity(w[1]) = IF BelowNot(Root, p) THEN <<"NOT LIKE">>
                                        ELSE <<"LIKE">>

\* a startswith(..,'a%') below a not was attached as NOT LIKE with the
\* pattern a\%%
C13_Witness ==
    /\ Accepted
    /\ Build.emitted
    /\ Clean(Root)
    /\ IsNot(Root)
    /\ PlainStringPredicateAt(Root, <<"L", "L">>)
    /\ NodeAt(Root, <<"L", "L">>).Value = <<"startswith">>
    /\ \E e \in Leaves(Added) :
          /\ e.k = "expr"
          /\ e.Vars = <<StrVal(<<"a", "\\", "%", "%">>)>>
          /\ Polarity(e) = <<"NOT LIKE">>

-----------------------------------------------------------------------------
\* a string predicate with a quoted literal on the right, whatever its left
\* operand
StringPredicateAt(tree, p) ==
    LET node == NodeAt(tree, p)
    IN  /\ IsPredicate(node)
        /\ Key(node.Value) \in StringOps
        /\ node.RightChild.Type = "RightOperand"
        /\ IsQuoted(node.RightChild.Value)

\* the pattern an attached predicate carries, and its ESCAPE '\' clauses
PatternIn(e) == IF e.k = "map" THEN MapLeaf(e.m) ELSE e.Vars[1].v

EscapedPercents(s) ==
    Cardinality({i \in 1..(Len(s) - 1) : s[i] = "\\" /\ s[i + 1] = "%"})

EscapeClauses(e) == IF e.k = "expr" THEN Count(e.SQL, " ESCAPE '\\'") ELSE 0

\* C14  Escape law: for every string predicate, whatever the form of its left
\* operand (column, unary chain, concat or navigation path), a literal with
\* a single % gives a pattern with exactly one \% and a predicate with
\* exactly one ESCAPE '\' clause; a literal without % gets no ESCAPE clause.
C14_EscapeLaw ==
    (Accepted /\ Build.emitted /\ Clean(Root)) =>
        \A p \in PredicatePaths(Root) :
            StringPredicateAt(Root, p) =>
                LET literal == NodeAt(Root, p).RightChild.Value
                    w       == AttachedAlone(Root, p)
                IN  /\ Len(w) = 1
                    /\ w[1] \in Leaves(Added)
                    /\ Count(literal, "%") = 1 =>
                          /\ EscapedPercents(PatternIn(w[1])) = 1
                          /\ EscapeClauses(w[1]) = 1
                    /\ Count(literal, "%") = 0 => EscapeClauses(w[1]) = 0

\* the same law with the navigation paths left out
C14_EscapeLawOffPaths ==
    (Accepted /\ Build.emitted /\ Clean(Root)) =>
        \A p \in PredicatePaths(Root) :
            (StringPredicateAt(Root, p) /\ ~NavPredicateAt(Root, p)) =>
                LET literal == NodeAt(Root, p).RightChild.Value
                    w       == AttachedAlone(Root, p)
                IN  /\ Len(w) = 1
                    /\ Count(literal, "%") = 1 =>
                          /\ EscapedPercents(PatternIn(w[1])) = 1
                          /\ EscapeClauses(w[1]) = 1
                    /\ Count(literal, "%") = 0 => EscapeClauses(w[1]) = 0

-----------------------------------------------------------------------------
\* a chain of unary functions over a column
RECURSIVE ChainOverColumn(_)
ChainOverColumn(node) ==
    /\ node.Type = "UnaryOperator"
    /\ Key(node.Value) \in UnaryFunctions
    /\ \/ ChainOverColumn(node.LeftChild)
       \/ /\ node.LeftChild.Type = "LeftOperand"
          /\ ~Contains(node.LeftChild.Value, "'")

\* R(d, f, a): NAME(a) for a plain entry of the dialect table, the entry with
\* a in the place of %s for a template
RenderOne(d, f, a) ==
    LET entry == unaryFunctionTranslation(d, f)
    IN  IF "%s" \in {entry[i] : i \in 1..Len(entry)}
        THEN ReplaceAll(entry, "%s", a)
        ELSE entry \o <<"(">> \o a \o <<")">>

RECURSIVE RenderChain(_, _)
RenderChain(d, node) ==
    IF node.Type = "UnaryOperator"
    THEN RenderOne(d, Key(node.Value), RenderChain(d, node.LeftChild))
    ELSE columnTranslation(node.Value)

\* what follows the left operand in an attached fragment
AfterOperand == {" ", " LIKE ?", " NOT LIKE ?"}

OperandIs(e, text) ==
    /\ e.k = "expr"
    /\ HasPrefix(e.SQL, text)
    /\ Len(e.SQL) > Len(text)
    /\ e.SQL[Len(text) + 1] \in AfterOperand

\* the chain has a template entry of the dialect above its innermost function
RECURSIVE TemplateAbove(_, _)
TemplateAbove(d, node) ==
    /\ node.LeftChild.Type = "UnaryOperator"
    /\ \/ IsTemplate(unaryFunctionTranslation(d, Key(node.Value)))
       \/ TemplateAbove(d, node.LeftChild)

\* C15  Unary-chain rendering: for every dialect d and chain
\* f1(f2(...fn(x))) over a column x the emitted operand is
\* R(d,f1,R(d,f2,...R(d,fn,nameOf(x)))), R being NAME(a) for a plain table
\* entry and the entry with %s replaced by a for a template, at every
\* position of the chain; MySQL, SQLite and SQLServer render identically and
\* PostgreSQL renders year as EXTRACT(YEAR FROM a).
C15_UnaryChainRendering ==
    /\ \A f \in UnaryFunctions :
          /\ unaryFunctionTranslation("SQLite", f) = unaryFunctionTranslation("MySQL", f)
          /\ unaryFunctionTranslation("SQLServer", f) = unaryFunctionTranslation("MySQL", f)
    /\ RenderOne("PostgreSQL", "year", <<"a">>) = <<"EXTRACT(YEAR FROM ", "a", ")">>
    /\ (Accepted /\ Build.emitted /\ Clean(Root)) =>
          \A p \in PredicatePaths(Root) :
              ChainOverColumn(NodeAt(Root, p).LeftChild) =>
                  LET w == AttachedAlone(Root, p)
                  IN  /\ Len(w) = 1
                      /\ w[1] \in Leaves(Added)
                      /\ OperandIs(w[1], RenderChain(input.databaseType,
                                                     NodeAt(Root, p).LeftChild))

\* the same for the chains whose template entries are all innermost
C15_InnermostTemplates ==
    (Accepted /\ Build.emitted /\ Clean(Root)) =>
        \A p \in PredicatePaths(Root) :
            (/\ ChainOverColumn(NodeAt(Root, p).LeftChild)
             /\ ~TemplateAbove(input.databaseType, NodeAt(Root, p).LeftChild)) =>
                OperandIs(AttachedAlone(Root, p)[1],
                          RenderChain(input.databaseType, NodeAt(Root, p).LeftChild))

-----------------------------------------------------------------------------
IsConcat(node) == node.Type = "Operator" /\ node.Value = <<"concat">>

\* render(concat(a, b)) = render(a) + ' || ' + render(b); a unary node is
\* rendered as the chain it is the top of
RECURSIVE RenderConcat(_, _)
RenderConcat(d, node) ==
    IF IsConcat(node)
    THEN RenderConcat(d, node.LeftChild) \o <<" || ">> \o RenderConcat(d, node.RightChild)
    ELSE IF node.Type = "UnaryOperator"
    THEN buildUnaryFuncChain(d, node, <<>>)
    ELSE IF "'" \in {node.Value[i] : i \in 1..Len(node.Value)}
    THEN node.Value
    ELSE columnTranslation(node.Value)

\* C16  Concat rendering: render(concat(a,b)) = render(a) + ' || ' + render(b)
\* with the operands in source order; a leaf holding a single quote is
\* carried as it is, a leaf without quotes goes through the naming strategy,
\* a unary node is rendered as its chain and a nested concat recursively.
C16_ConcatRendering ==
    (Accepted /\ Build.emitted /\ Clean(Root)) =>
        \A p \in PredicatePaths(Root) :
            IsConcat(NodeAt(Root, p).LeftChild) =>
                LET w == AttachedAlone(Root, p)
                IN  /\ Len(w) = 1
                    /\ w[1] \in Leaves(Added)
                    /\ OperandIs(w[1], RenderConcat(input.databaseType,
                                                    NodeAt(Root, p).LeftChild))

\* concat(name, concat(tVal, 'a')) was emitted as name || t_val || 'a'
C16_Witness ==
    /\ Accepted
    /\ Build.emitted
    /\ IsConcat(Root.LeftChild)
    /\ IsConcat(Root.LeftChild.RightChild)
    /\ Len(Added) = 1
    /\ OperandIs(Added[1], <<"n", "a", "m", "e", " || ", "t", "_", "v", "a", "l",
                             " || ", "'", "a", "'">>)

\* a unary chain inside a concat was emitted
C16_ChainWitness ==
    /\ Accepted
    /\ Build.emitted
    /\ IsConcat(Root.LeftChild)
    /\ Root.LeftChild.LeftChild.Type = "UnaryOperator"
    /\ Len(Added) = 1
    /\ OperandIs(Added[1], <<"LENGTH", "(", "t", "_", "v", "a", "l", ")", " || ",
                             "n", "a", "m", "e">>)

-----------------------------------------------------------------------------
\* what the emitter returns for the node at p of the tree of the call, given
\* the builder db, with the tables and the flag it has at that node
EmitOn(tree, p, db) ==
    buildGormQuery(tree, p, db, input.databaseType,
                   IF BelowNot(tree, p) THEN operatorTranslationReversed
                   ELSE operatorTranslation,
                   IF BelowNot(tree, p) THEN gormqonvertTranslationReversed
                   ELSE gormqonvertTranslation,
                   gormqonvertTranslationReversed, BelowNot(tree, p))

IsComparison(node) == node.Type = "Operator" /\ Key(node.Value) \in CompareOps

\* the node at p is the root or has only nots above it
OnlyNotsAbove(tree, p) ==
    \A i \in 0..(Len(p) - 1) : IsNot(NodeAt(tree, SubSeq(p, 1, i)))

RightOperandError(node) ==
    IF node.RightChild.Type = "UnaryOperator"
    THEN InvalidQueryError(
           <<"unary operators not supported as right operand of equality operators">>)
    ELSE InvalidQueryError(
           <<"concat not supported as right operand of equality operators">>)

\* a comparison whose right child is a unary function or a concat
BadRightAt(tree, p) ==
    LET node == NodeAt(tree, p)
    IN  /\ IsComparison(node)
        /\ \/ node.RightChild.Type = "UnaryOperator"
           \/ IsConcat(node.RightChild)

C17_UnaryWitness ==
    /\ BuildCalled
    /\ Build.emitted
    /\ BadRightAt(Root, <<>>)
    /\ Root.Value = <<"lt">>
    /\ ErrorText(Build.err) =
          <<"invalid query: ",
            "unary operators not supported as right operand of equality operators">>

-----------------------------------------------------------------------------
\* a unary operator other than not
IsFunction(node) == node.Type = "UnaryOperator" /\ node.Value # <<"not">>

\* the root, or the child of a not at the root, is a unary function
FunctionAsTerm(tree) ==
    \/ IsFunction(tree)
    \/ IsNot(tree) /\ IsFunction(tree.LeftChild)

C18_RootWitness ==
    /\ BuildCalled
    /\ Build.emitted
    /\ IsFunction(Root)
    /\ Build.err.kind = "InvalidQueryError"

-----------------------------------------------------------------------------
\* a bare operand, or a binary node whose operator is no connective, no
\* comparison and no string predicate
OtherShape(node) ==
    \/ node.Type \in {"LeftOperand", "RightOperand"}
    \/ node.Type = "Operator" /\ ~IsConnective(node) /\ ~IsPredicate(node)

IsInvalidQuery(err) ==
    /\ err.kind = "InvalidQueryError"
    /\ HasPrefix(ErrorText(err), <<"invalid query: ">>)

\* C19  Every other shape is rejected: whenever the emitter is applied to a
\* node that is not and, or, a comparison, a string predicate or not (a bare
\* operand, or a binary node with another operator such as concat used as a
\* boolean term), the build call returns an error 'invalid query: <msg>' and
\* never succeeds having attached nothing for that node.
C19_OtherShapesRejected ==
    (BuildCalled /\ Build.emitted) =>
        \A p \in EmitPaths(Root) :
            OtherShape(NodeAt(Root, p)) => IsInvalidQuery(Build.err)

\* the same for a bare operand that is the term of the query or of its nots
C19_BareOperandAsTerm ==
    (BuildCalled /\ Build.emitted) =>
        \A p \in EmitPaths(Root) :
            (/\ NodeAt(Root, p).Type \in {"LeftOperand", "RightOperand"}
             /\ OnlyNotsAbove(Root, p)) =>
                /\ IsInvalidQuery(Build.err)
                /\ Build.db = input.db

\* a binary node with another operator is the term of the query and the call
\* succeeded with nothing attached
C19_SilentSuccess ==
    /\ Accepted
    /\ Build.emitted
    /\ IsConcat(Root)
    /\ Build.db = input.db

-----------------------------------------------------------------------------
(* Sequences of build calls in one process: several builders, each with its *)
(* own plugin registry, and the package tables and cache shared by all      *)
(* calls.                                                                   *)

MaxCalls == 3          \* build calls in one process

\* a builder on which the prefix-value plugin was registered with the tokens
\* the package tables start with
DefaultPlugins ==
    [deepgorm |-> TRUE,
     gormqonvert |-> QonvertPlugin(configOfTables(gormqonvertTranslationInit,
                                                  gormqonvertTranslationReversedInit))]

\* the builders of the process, by name, and their registries at the start
CallBuilders ==
    [default |-> DefaultPlugins, custom |-> CustomPlugins, none |-> NoPlugins]

CallQueries ==
    {[Root |-> t, err |-> NilError] :
        t \in { Operator("gt", LeftOperand(NavPath(2)), RightOperand(lit5)),
                Not(Operator("contains", LeftOperand(NavPath(2)), RightOperand(litA))),
                Operator("eq", LeftOperand(name), RightOperand(litA)) }}

CallInputs ==
    {[query |-> q, db |-> [where |-> <<>>], builder |-> b, databaseType |-> "SQLite",
      model |-> MockModel, maxTreeDepth |-> 0] :
        q \in CallQueries, b \in DOMAIN CallBuilders}

\* checkDbPlugins(db) on the builder of the call
BootstrapOn(b) ==
    checkDbPlugins(plugins[b], gormqonvertTranslation, gormqonvertTranslationReversed,
                   cacheGormqonvertTranslationMap)

BootstrappedOn(b, boot) ==
    /\ plugins' = [plugins EXCEPT ![b] = boot.plugins]
    /\ gormqonvertTranslation' = boot.gq
    /\ gormqonvertTranslationReversed' = boot.gqReversed
    /\ cacheGormqonvertTranslationMap' = boot.cache

\* the result of a call, with the registry of its builder as it was received
ReceivedOn(b, result) ==
    [result EXCEPT !.received = [db |-> input.db, plugins |-> plugins[b]]]

InitCalls ==
    /\ gormqonvertTranslation = gormqonvertTranslationInit
    /\ gormqonvertTranslationReversed = gormqonvertTranslationReversedInit
    /\ cacheGormqonvertTranslationMap = EmptyCache
    /\ plugins = CallBuilders
    /\ input \in CallInputs
    /\ pc = "ready"
    /\ ret = [build |-> NoCall, valid |-> NoCall, calls |-> 0]

BuildQueryCall ==
    /\ pc = "ready"
    /\ BootstrappedOn(input.builder, BootstrapOn(input.builder))
    /\ ret' = [ret EXCEPT
                 !.build = ReceivedOn(input.builder,
                                      buildQueryBody(input, BootstrapOn(input.builder))),
                 !.calls = @ + 1]
    /\ pc' = "done"
    /\ UNCHANGED input

BuildQueryWithValidationCall ==
    /\ pc = "ready"
    /\ BootstrappedOn(input.builder, BootstrapOn(input.builder))
    /\ ret' = [ret EXCEPT
                 !.build = ReceivedOn(input.builder,
                              buildQueryWithValidationBody(input, BootstrapOn(input.builder))),
                 !.calls = @ + 1]
    /\ pc' = "done"
    /\ UNCHANGED input

\* the caller makes its next call, on any builder
NextCall ==
    /\ pc = "done"
    /\ ret.calls < MaxCalls
    /\ input' \in CallInputs
    /\ pc' = "ready"
    /\ UNCHANGED <<gormqonvertTranslation, gormqonvertTranslationReversed,
                   cacheGormqonvertTranslationMap, plugins, ret>>

NextCalls == BuildQueryCall \/ BuildQueryWithValidationCall \/ NextCall

SpecCalls == InitCalls /\ [][NextCalls]_vars

\* the tokens of a CharacterConfig, by operator, outside and inside not (the
\* reversed table takes greater for less and not-like for like; ne has none)
ForwardToken(c, op) ==
    CASE op = "gt" -> c.GreaterThanPrefix
      [] op = "ge" -> c.GreaterOrEqualToPrefix
      [] op = "lt" -> c.LessThanPrefix
      [] op = "le" -> c.LessOrEqualToPrefix
      [] op = "ne" -> c.NotEqualToPrefix
      [] op \in StringOps -> c.LikePrefix

ReversedToken(c, op) ==
    CASE op = "gt" -> c.LessThanPrefix
      [] op = "ge" -> c.LessOrEqualToPrefix
      [] op = "lt" -> c.GreaterThanPrefix
      [] op = "le" -> c.GreaterOrEqualToPrefix
      [] op = "ne" -> <<>>
      [] op \in StringOps -> c.NotLikePrefix

\* the call just made was on a builder that had the prefix-value plugin
JustCalledRegistered ==
    /\ pc = "done"
    /\ BuildCalled
    /\ Build.received.plugins.gormqonvert.registered

\* C20  Bootstrap from a registered plugin: in any sequence of build calls on
\* any builders (default, custom or no prefix-value plugin), whenever the
\* builder of a call already has the prefix-value plugin registered, the
\* forward and reversed prefix tables the call uses for nested-filter leaves
\* consist of the tokens configured in that plugin.
C20_BootstrapFromRegisteredPlugin ==
    JustCalledRegistered =>
        LET c == Build.received.plugins.gormqonvert.config
        IN  \A op \in AllOps \ {"eq"} :
                /\ gormqonvertTranslation[op] = ForwardToken(c, op)
                /\ gormqonvertTranslationReversed[op] = ReversedToken(c, op)

\* the same for the first call of the process
C20_FirstCall ==
    (JustCalledRegistered /\ ret.calls = 1) =>
        LET c == Build.received.plugins.gormqonvert.config
        IN  \A op \in AllOps \ {"eq"} :
                /\ gormqonvertTranslation[op] = ForwardToken(c, op)
                /\ gormqonvertTranslationReversed[op] = ReversedToken(c, op)

\* a call on the builder with the custom plugin attached a nested filter
\* whose leaf has the token of the default tables
C20_StaleLeaf ==
    /\ JustCalledRegistered
    /\ input.builder = "custom"
    /\ Accepted
    /\ Root.Value = <<"gt">>
    /\ Len(Build.db.where) = 1
    /\ Build.db.where[1].k = "map"
    /\ MapLeaf(Build.db.where[1].m) = <<">", "5">>

-----------------------------------------------------------------------------
\* the default tokens > , >= , < , <= , != , ~ , !~
DefaultTokens ==
    [GreaterThanPrefix      |-> <<">">>,
     GreaterOrEqualToPrefix |-> <<">", "=">>,
     LessThanPrefix         |-> <<"<">>,
     LessOrEqualToPrefix    |-> <<"<", "=">>,
     NotEqualToPrefix       |-> <<"!", "=">>,
     LikePrefix             |-> <<"~">>,
     NotLikePrefix          |-> <<"!", "~">>]

\* the call just made was on a builder without the prefix-value plugin
JustCalledUnregistered ==
    /\ pc = "done"
    /\ BuildCalled
    /\ ~Build.received.plugins.gormqonvert.registered

\* C21  Bootstrap with defaults: in any sequence of build calls, whenever the
\* builder of a call has no prefix-value plugin registered, the call
\* registers one configured with the default tokens > , >= , < , <= , != ,
\* ~ , !~ and registers the deep-filter plugin if absent, whatever
\* configurations earlier calls of the process have seen.
C21_BootstrapWithDefaults ==
    JustCalledUnregistered =>
        /\ plugins[input.builder].deepgorm
        /\ plugins[input.builder].gormqonvert.registered
        /\ plugins[input.builder].gormqonvert.config = DefaultTokens

\* the same for the first call of the process
C21_FirstCall ==
    (JustCalledUnregistered /\ ret.calls = 1) =>
        /\ plugins[input.builder].deepgorm
        /\ plugins[input.builder].gormqonvert = QonvertPlugin(DefaultTokens)

\* a call on a builder without the plugin registered the tokens of the custom
\* configuration an earlier call had read
C21_CustomRegistered ==
    /\ JustCalledUnregistered
    /\ plugins[input.builder].gormqonvert.registered
    /\ plugins[input.builder].gormqonvert.config.GreaterThanPrefix = <<"+">>

-----------------------------------------------------------------------------
(* Concurrent build calls: each thread calls BuildQuery on a builder of its *)
(* own.  checkDbPlugins is taken apart into its accesses to the package     *)
(* tables and to the cache; a thread at a location is about to make the     *)
(* access of that location.  Cache loads and stores are atomic              *)
(* (tsyncmap.Map); the accesses to the package tables are plain reads and   *)
(* writes of Go maps and package variables.                                 *)

MaxThreads == 2        \* concurrent build calls

Threads == 1..MaxThreads

ThreadBuilders == {DefaultPlugins, CustomPlugins, NoPlugins}

ThreadQuery ==
    [Root |-> Operator("gt", LeftOperand(NavPath(2)), RightOperand(lit5)),
     err  |-> NilError]

ThreadInputs ==
    {[query |-> ThreadQuery, db |-> [where |-> <<>>], plugins |-> b,
      databaseType |-> "SQLite"] : b \in ThreadBuilders}

\* the keys lines 698-702 (710-714) and lines 703-705 (715-717) write
ComparisonKeys == {"gt", "ge", "lt", "le", "ne"}
LikeKeys == {"contains", "startswith", "endswith"}

\* table with the entries of from at keys
Overwritten(table, from, keys) ==
    [op \in DOMAIN table |-> IF op \in keys THEN from[op] ELSE table[op]]

\* locations at which a thread writes / reads the forward and reversed table
ForwardMapWrites == {"writeForward", "writeForwardLike"}
ForwardWrites == ForwardMapWrites \cup {"assignForward"}
ForwardReads == {"readTables", "storeForward", "emit"}
ReversedMapWrites == {"writeReversed", "writeReversedLike"}
ReversedWrites == ReversedMapWrites \cup {"assignReversed"}
ReversedReads == {"readTables", "storeReversed", "emit"}

At(t, loc) == pc[t] = loc

Goto(t, loc) == pc' = [pc EXCEPT ![t] = loc]

InitThreads ==
    /\ gormqonvertTranslation = gormqonvertTranslationInit
    /\ gormqonvertTranslationReversed = gormqonvertTranslationReversedInit
    /\ cacheGormqonvertTranslationMap = EmptyCache
    /\ input \in [Threads -> ThreadInputs]
    /\ plugins = [t \in Threads |-> input[t].plugins]
    /\ pc = [t \in Threads |-> "ready"]
    /\ ret = [t \in Threads |-> NoCall]

\* lines 689-694: the deep-filter plugin, and the test for the other
EnterBootstrap(t) ==
    /\ At(t, "ready")
    /\ plugins' = [plugins EXCEPT ![t].deepgorm = TRUE]
    /\ Goto(t, IF plugins[t].gormqonvert.registered THEN "loadForward" ELSE "readTables")
    /\ UNCHANGED <<gormqonvertTranslation, gormqonvertTranslationReversed,
                   cacheGormqonvertTranslationMap, input, ret>>

\* line 697
LoadForward(t) ==
    /\ At(t, "loadForward")
    /\ Goto(t, IF cacheGormqonvertTranslationMap[FwdKey].ok THEN "assignForward"
               ELSE "writeForward")
    /\ ret' = [ret EXCEPT ![t] = [op |-> "none", loaded |-> cacheGormqonvertTranslationMap[FwdKey]]]
    /\ UNCHANGED <<gormqonvertTranslation, gormqonvertTranslationReversed,
                   cacheGormqonvertTranslationMap, input, plugins>>

\* lines 698-702
WriteForward(t) ==
    /\ At(t, "writeForward")
    /\ gormqonvertTranslation' =
          Overwritten(gormqonvertTranslation,
                      forwardFromConfig(gormqonvertTranslation, plugins[t].gormqonvert.config),
                      ComparisonKeys)
    /\ Goto(t, "writeForwardLike")
    /\ UNCHANGED <<gormqonvertTranslationReversed, cacheGormqonvertTranslationMap,
                   input, plugins, ret>>

\* lines 703-705
WriteForwardLike(t) ==
    /\ At(t, "writeForwardLike")
    /\ gormqonvertTranslation' =
          Overwritten(gormqonvertTranslation,
                      forwardFromConfig(gormqonvertTranslation, plugins[t].gormqonvert.config),
                      LikeKeys)
    /\ Goto(t, "loadReversed")
    /\ UNCHANGED <<gormqonvertTranslationReversed, cacheGormqonvertTranslationMap,
                   input, plugins, ret>>

\* line 707
AssignForward(t) ==
    /\ At(t, "assignForward")
    /\ gormqonvertTranslation' = ret[t].loaded.table
    /\ Goto(t, "loadReversed")
    /\ UNCHANGED <<gormqonvertTranslationReversed, cacheGormqonvertTranslationMap,
                   input, plugins, ret>>

\* line 709
LoadReversed(t) ==
    /\ At(t, "loadReversed")
    /\ Goto(t, IF cacheGormqonvertTranslationMap[RevKey].ok THEN "assignReversed"
               ELSE "writeReversed")
    /\ ret' = [ret EXCEPT ![t] = [op |-> "none", loaded |-> cacheGormqonvertTranslationMap[RevKey]]]
    /\ UNCHANGED <<gormqonvertTranslation, gormqonvertTranslationReversed,
                   cacheGormqonvertTranslationMap, input, plugins>>

\* lines 710-714
WriteReversed(t) ==
    /\ At(t, "writeReversed")
    /\ gormqonvertTranslationReversed' =
          Overwritten(gormqonvertTranslationReversed,
                      reversedFromConfig(gormqonvertTranslationReversed,
                                         plugins[t].gormqonvert.config),
                      ComparisonKeys)
    /\ Goto(t, "writeReversedLike")
    /\ UNCHANGED <<gormqonvertTranslation, cacheGormqonvertTranslationMap,
                   input, plugins, ret>>

\* lines 715-717
WriteReversedLike(t) ==
    /\ At(t, "writeReversedLike")
    /\ gormqonvertTranslationReversed' =
          Overwritten(gormqonvertTranslationReversed,
                      reversedFromConfig(gormqonvertTranslationReversed,
                                         plugins[t].gormqonvert.config),
                      LikeKeys)
    /\ Goto(t, "storeReversed")
    /\ UNCHANGED <<gormqonvertTranslation, cacheGormqonvertTranslationMap,
                   input, plugins, ret>>

\* line 720
AssignReversed(t) ==
    /\ At(t, "assignReversed")
    /\ gormqonvertTranslationReversed' = ret[t].loaded.table
    /\ Goto(t, "emit")
    /\ UNCHANGED <<gormqonvertTranslation, cacheGormqonvertTranslationMap,
                   input, plugins, ret>>

\* lines 722-734: the configuration read from the package tables, db.Use
ReadTables(t) ==
    /\ At(t, "readTables")
    /\ plugins' = [plugins EXCEPT ![t].gormqonvert =
                      QonvertPlugin(configOfTables(gormqonvertTranslation,
                                                   gormqonvertTranslationReversed))]
    /\ Goto(t, "storeForward")
    /\ UNCHANGED <<gormqonvertTranslation, gormqonvertTranslationReversed,
                   cacheGormqonvertTranslationMap, input, ret>>

\* line 735
StoreForward(t) ==
    /\ At(t, "storeForward")
    /\ cacheGormqonvertTranslationMap' =
          CacheStore(cacheGormqonvertTranslationMap, FwdKey, gormqonvertTranslation)
    /\ Goto(t, "storeReversed")
    /\ UNCHANGED <<gormqonvertTranslation, gormqonvertTranslationReversed,
                   input, plugins, ret>>

\* lines 718 and 736
StoreReversed(t) ==
    /\ At(t, "storeReversed")
    /\ cacheGormqonvertTranslationMap' =
          CacheStore(cacheGormqonvertTranslationMap, RevKey, gormqonvertTranslationReversed)
    /\ Goto(t, "emit")
    /\ UNCHANGED <<gormqonvertTranslation, gormqonvertTranslationReversed,
                   input, plugins, ret>>

\* BuildQuery after checkDbPlugins: the tree is built and emitted with the
\* package tables
Emit(t) ==
    /\ At(t, "emit")
    /\ LET tree  == ConstructTree(input[t].query)
           built == buildGormQuery(tree.Root, <<>>, input[t].db, input[t].databaseType,
                                   operatorTranslation, gormqonvertTranslation,
                                   gormqonvertTranslationReversed, FALSE)
       IN  ret' = [ret EXCEPT ![t] = [op |-> "BuildQuery", db |-> built.db,
                                      err |-> built.err]]
    /\ Goto(t, "done")
    /\ UNCHANGED <<gormqonvertTranslation, gormqonvertTranslationReversed,
                   cacheGormqonvertTranslationMap, input, plugins>>

\* two threads are about to access the same Go map, one of them writing:
\* the runtime may stop the process (fatal error: concurrent map writes /
\* concurrent map read and map write)
MapConflict(t, u) ==
    \/ pc[t] \in ForwardMapWrites /\ pc[u] \in ForwardMapWrites \cup {"readTables", "emit"}
    \/ pc[t] \in ReversedMapWrites /\ pc[u] \in ReversedMapWrites \cup {"readTables", "emit"}

Fatal ==
    /\ \E t, u \in Threads : t # u /\ MapConflict(t, u)
    /\ pc' = [t \in Threads |-> "crashed"]
    /\ UNCHANGED <<gormqonvertTranslation, gormqonvertTranslationReversed,
                   cacheGormqonvertTranslationMap, input, plugins, ret>>

NextThreads ==
    \/ \E t \in Threads : EnterBootstrap(t)
    \/ \E t \in Threads : LoadForward(t)
    \/ \E t \in Threads : WriteForward(t)
    \/ \E t \in Threads : WriteForwardLike(t)
    \/ \E t \in Threads : AssignForward(t)
    \/ \E t \in Threads : LoadReversed(t)
    \/ \E t \in Threads : WriteReversed(t)
    \/ \E t \in Threads : WriteReversedLike(t)
    \/ \E t \in Threads : AssignReversed(t)
    \/ \E t \in Threads : ReadTables(t)
    \/ \E t \in Threads : StoreForward(t)
    \/ \E t \in Threads : StoreReversed(t)
    \/ \E t \in Threads : Emit(t)
    \/ Fatal

SpecThreads == InitThreads /\ [][NextThreads]_vars

\* two threads about to access one table, at least one of them writing it
RaceOn(writes, reads) ==
    \E t, u \in Threads :
        /\ t # u
        /\ pc[t] \in writes
        /\ pc[u] \in writes \cup reads

\* C22  Parallel build calls are race free: when several build calls run
\* concurrently, each on its own builder, no call writes a shared prefix
\* table (forward or reversed) while another call is reading or writing it.
C22_RaceFree ==
    /\ ~RaceOn(ForwardWrites, ForwardReads)
    /\ ~RaceOn(ReversedWrites, ReversedReads)

\* a call returned a nested filter with a token no configuration of its
\* builder holds, after another thread wrote the forward table
C22_ForeignToken ==
    \E t \in Threads :
        /\ pc[t] = "done"
        /\ input[t].plugins = DefaultPlugins
        /\ ret[t].err = NilError
        /\ MapLeaf(ret[t].db.where[1].m) = <<"+", "5">>

-----------------------------------------------------------------------------
\* the tokens of a configuration
TokensOfConfig(c) ==
    {c.GreaterThanPrefix, c.GreaterOrEqualToPrefix, c.LessThanPrefix,
     c.LessOrEqualToPrefix, c.NotEqualToPrefix, c.LikePrefix, c.NotLikePrefix}

\* every prefix of both tables in use is a token of the configuration c (the
\* negated ne has none)
TablesFrom(c) ==
    \A op \in AllOps \ {"eq"} :
        /\ gormqonvertTranslation[op] \in TokensOfConfig(c)
        /\ op # "ne" => gormqonvertTranslationReversed[op] \in TokensOfConfig(c)

BothCached ==
    /\ cacheGormqonvertTranslationMap[FwdKey].ok
    /\ cacheGormqonvertTranslationMap[RevKey].ok

OneSnapshot == TablesFrom(DefaultTokens) \/ TablesFrom(CustomConfig)

TablesUnchanged ==
    UNCHANGED <<gormqonvertTranslation, gormqonvertTranslationReversed>>

\* C23  Prefix snapshot: after the first build call of the process both the
\* forward and the reversed prefix table are stored in the process-wide
\* cache, and after every later call, on whatever builder, the tables in use
\* are unchanged and both derive from that one configuration (never forward
\* tokens of one configuration with reversed tokens of another).
C23_PrefixSnapshot ==
    /\ [](ret.calls >= 1 => BothCached /\ OneSnapshot)
    /\ [][ret.calls >= 1 => TablesUnchanged]_vars

\* the parts of C23, one by one
C23_BothCached == ret.calls >= 1 => BothCached

C23_OneSnapshot == ret.calls >= 1 => OneSnapshot

C23_Unchanged == [][ret.calls >= 1 => TablesUnchanged]_vars

\* the snapshot when the first call is on a builder without the plugin
C23_FirstOnPluginless ==
    (ret.calls = 1 /\ pc = "done" /\ input.builder = "none") =>
        BothCached /\ OneSnapshot

\* after a later call the forward table holds the tokens of the custom
\* configuration and the reversed table those of the default one
C23_MixedTables ==
    /\ ret.calls >= 2
    /\ gormqonvertTranslation["gt"] = <<"+">>
    /\ gormqonvertTranslationReversed["contains"] = <<"!", "~">>

-----------------------------------------------------------------------------
\* the token of the logical complement of a comparison
ComplementToken(c, op) ==
    CASE op = "eq" -> c.NotEqualToPrefix
      [] op = "ne" -> <<>>
      [] op = "gt" -> c.LessOrEqualToPrefix
      [] op = "ge" -> c.LessThanPrefix
      [] op = "lt" -> c.GreaterOrEqualToPrefix
      [] op = "le" -> c.GreaterThanPrefix

\* a comparison of a navigation path with a literal, below a not
NegatedNavComparisonAt(tree, p) ==
    /\ NavPredicateAt(tree, p)
    /\ IsComparison(NodeAt(tree, p))
    /\ BelowNot(tree, p)

ComplementLeafAt(tree, p, ops) ==
    LET node == NodeAt(tree, p)
        w    == AttachedAlone(tree, p)
    IN  Key(node.Value) \in ops =>
            /\ Len(w) = 1
            /\ w[1].k = "map"
            /\ MapLeaf(w[1].m) =
                  ComplementToken(plugins.gormqonvert.config, Key(node.Value))
                      \o Unquoted(node.RightChild.Value)

\* C24  Negated navigation comparison: inside a not subtree the nested-map
\* leaf of a navigation-path comparison encodes the logical complement of the
\* operator, with the default prefix tables and with tables read from a
\* pre-registered plugin: eq -> not-equal token + literal, ne -> bare
\* literal, gt -> less-or-equal token + literal, ge -> less-than token +
\* literal, lt -> greater-or-equal token + literal, le -> greater-than token
\* + literal.
C24_NegatedNavigationComparison ==
    (Accepted /\ Build.emitted /\ Clean(Root)) =>
        \A p \in PredicatePaths(Root) :
            NegatedNavComparisonAt(Root, p) => ComplementLeafAt(Root, p, CompareOps)

\* the orderings gt, ge, lt, le with the default tables
C24_DefaultOrderings ==
    (Accepted /\ Build.emitted /\ Clean(Root)
       /\ ~Build.received.plugins.gormqonvert.registered) =>
        \A p \in PredicatePaths(Root) :
            NegatedNavComparisonAt(Root, p) =>
                ComplementLeafAt(Root, p, {"gt", "ge", "lt", "le"})

\* ne with the tables read from a pre-registered plugin
C24_PluginNe ==
    (Accepted /\ Build.emitted /\ Clean(Root)
       /\ Build.received.plugins.gormqonvert.registered) =>
        \A p \in PredicatePaths(Root) :
            NegatedNavComparisonAt(Root, p) => ComplementLeafAt(Root, p, {"ne"})

\* single operators and tables, for the account of which cases diverge
C24_Eq ==
    (Accepted /\ Build.emitted /\ Clean(Root)) =>
        \A p \in PredicatePaths(Root) :
            NegatedNavComparisonAt(Root, p) => ComplementLeafAt(Root, p, {"eq"})

C24_DefaultNe ==
    (Accepted /\ Build.emitted /\ Clean(Root)
       /\ ~Build.received.plugins.gormqonvert.registered) =>
        \A p \in PredicatePaths(Root) :
            NegatedNavComparisonAt(Root, p) => ComplementLeafAt(Root, p, {"ne"})

C24_PluginOrderings ==
    (Accepted /\ Build.emitted /\ Clean(Root)
       /\ Build.received.plugins.gormqonvert.registered) =>
        \A p \in PredicatePaths(Root) :
            NegatedNavComparisonAt(Root, p) =>
                ComplementLeafAt(Root, p, {"gt", "ge", "lt", "le"})

-----------------------------------------------------------------------------
\* the query is not(not(E))
DoubleNot(tree) == IsNot(tree) /\ IsNot(tree.LeftChild)

\* what the emitter of the call returns for another tree, on the builder and
\* with the tables of the call
EmittedFor(tree) ==
    buildGormQuery(tree, <<>>, input.db, input.databaseType, operatorTranslation,
                   gormqonvertTranslation, gormqonvertTranslationReversed, FALSE)

\* C25  Nested not is not re-flipped: a second not inside a negated subtree
\* keeps negated = true and the reversed tables, so not(not(E)) attaches
\* exactly the predicates not(E) attaches; it neither restores the positive
\* polarity nor returns an error of its own.
C25_NestedNotNotReflipped ==
    (BuildCalled /\ Build.emitted /\ DoubleNot(Root)) =>
        /\ Build.db = EmittedFor(Root.LeftChild).db
        /\ Build.err = EmittedFor(Root.LeftChild).err
        /\ Build.err = NilError =>
              /\ Build.db # EmittedFor(Root.LeftChild.LeftChild).db
              /\ Added # <<>>

\* not(not(name eq 'a')) attached name != ?
C25_Witness ==
    /\ Accepted
    /\ Build.emitted
    /\ DoubleNot(Root)
    /\ Root.LeftChild.LeftChild.Value = <<"eq">>
    /\ Len(Added) = 1
    /\ Added[1].k = "expr"
    /\ Polarity(Added[1]) = <<"!", "=">>

-----------------------------------------------------------------------------
\* a string predicate whose right operand is no single-quoted literal
UnquotedStringPredicateAt(tree, p) ==
    LET node == NodeAt(tree, p)
    IN  /\ IsPredicate(node)
        /\ Key(node.Value) \in StringOps
        /\ ~(node.RightChild.Type = "RightOperand" /\ IsQuoted(node.RightChild.Value))

\* C26  String predicates need a quoted literal: a contains / startswith /
\* endswith predicate whose right operand is not a single-quoted literal (an
\* integer, a bare identifier, a unary function or a concat) is never
\* emitted as a LIKE / NOT LIKE predicate or nested-filter leaf; the build
\* call returns an invalid-query error instead.
C26_StringPredicateNeedsQuotedLiteral ==
    (BuildCalled /\ Build.emitted) =>
        \A p \in EmitPaths(Root) :
            UnquotedStringPredicateAt(Root, p) =>
                /\ AttachedAlone(Root, p) = <<>>
                /\ IsInvalidQuery(Build.err)

\* contains(name, 5) was accepted and attached name LIKE ? with the text 5
C26_IntegerPattern ==
    /\ Accepted
    /\ Build.emitted
    /\ UnquotedStringPredicateAt(Root, <<>>)
    /\ Root.RightChild.Value = lit5
    /\ Len(Added) = 1
    /\ Added[1].k = "expr"
    /\ Polarity(Added[1]) = <<"LIKE">>
    /\ Added[1].Vars = <<StrVal(lit5)>>

\* contains(name, tolower(name)) was accepted and attached a LIKE predicate
C26_FunctionPattern ==
    /\ Accepted
    /\ Build.emitted
    /\ UnquotedStringPredicateAt(Root, <<>>)
    /\ Root.RightChild.Type = "UnaryOperator"
    /\ Len(Added) = 1
    /\ Added[1].k = "expr"
    /\ Polarity(Added[1]) = <<"LIKE">>

-----------------------------------------------------------------------------
\* a chain of unary functions whose innermost argument is a concat tree
RECURSIVE ChainOverConcat(_)
ChainOverConcat(node) ==
    /\ node.Type = "UnaryOperator"
    /\ Key(node.Value) \in UnaryFunctions
    /\ ChainOverConcat(node.LeftChild) \/ IsConcat(node.LeftChild)

\* the chain rendered with the concat rendering as innermost argument
RECURSIVE RenderChainOfConcat(_, _)
RenderChainOfConcat(d, node) ==
    IF node.Type = "UnaryOperator"
    THEN RenderOne(d, Key(node.Value), RenderChainOfConcat(d, node.LeftChild))
    ELSE RenderConcat(d, node)

\* C27  Concat inside a unary chain: when the innermost argument of a
\* unary-function chain is a concat tree (length(concat(a,b)) gt 3), the
\* argument text of the innermost function is the concat rendering of that
\* tree, its operands joined with ' || ', not the node's own value 'concat'.
C27_ConcatInsideUnaryChain ==
    (Accepted /\ Build.emitted /\ Clean(Root)) =>
        \A p \in PredicatePaths(Root) :
            ChainOverConcat(NodeAt(Root, p).LeftChild) =>
                LET w == AttachedAlone(Root, p)
                IN  /\ Len(w) = 1
                    /\ OperandIs(w[1], RenderChainOfConcat(input.databaseType,
                                                           NodeAt(Root, p).LeftChild))

\* length(concat(name,'a')) was emitted as LENGTH(concat)
C27_ConcatAsColumn ==
    /\ Accepted
    /\ Build.emitted
    /\ ChainOverConcat(Root.LeftChild)
    /\ Len(Added) = 1
    /\ OperandIs(Added[1], <<"LENGTH", "(", "concat", ")">>)

-----------------------------------------------------------------------------
\* the call succeeded on a builder that carried predicates
AcceptedOnPrior ==
    /\ Built("BuildQuery")
    /\ Accepted
    /\ Build.emitted
    /\ Clean(Root)
    /\ input.db.where # <<>>

\* on every row the condition of the returned builder is P AND (F): P the
\* predicates the builder carried, F the filter as one group
NotWidened ==
    LET keys == {AtomOf(e).key : e \in Leaves(Build.db.where)}
    IN  \A row \in [keys -> Outcomes] :
            /\ Eval(Build.db.where, row) =
                  And3(Eval(input.db.where, row), TreeTruth(Root, <<>>, row))
            /\ Eval(input.db.where, row) = "F" => Eval(Build.db.where, row) = "F"

\* the root attaches its two children with Where(..).Or(..)
RootJoinsWithOr(tree) ==
    \/ IsConnective(tree) /\ tree.Value = <<"or">>
    \/ IsNot(tree) /\ IsConnective(tree.LeftChild) /\ tree.LeftChild.Value = <<"and">>
    \/ IsNot(tree) /\ IsNot(tree.LeftChild) /\ IsConnective(tree.LeftChild.LeftChild)
          /\ tree.LeftChild.LeftChild.Value = <<"and">>

\* C28  Existing predicates are not widened: if the builder passed to
\* BuildQuery already carries predicates P, then after a successful call the
\* builder's condition is P AND (F), F being the whole translated filter as
\* one group, for every root shape including a root or and a root
\* not(A and B); a row rejected by P is never accepted.
C28_ExistingPredicatesNotWidened ==
    AcceptedOnPrior => NotWidened

\* the same for the roots that do not join their children with Or
C28_OtherRoots ==
    (AcceptedOnPrior /\ ~RootJoinsWithOr(Root)) => NotWidened

\* a root or on a builder with a predicate: the list is P, L, OR R
C28_Widened ==
    /\ AcceptedOnPrior
    /\ Root.Value = <<"or">>
    /\ Len(Build.db.where) = 3
    /\ Build.db.where[1] = PriorExpr
    /\ Build.db.where[3].k = "or"

-----------------------------------------------------------------------------
\* an eq comparison of a navigation path with a literal, outside not
NavEqualityAt(tree, p) ==
    /\ NavPredicateAt(tree, p)
    /\ NodeAt(tree, p).Value = <<"eq">>
    /\ ~BelowNot(tree, p)

\* the text begins with a token of the plugin registered on the builder
BeginsWithToken(text) ==
    \E t \in TokensOf(plugins.gormqonvert.config) : t.tok # <<>> /\ HasPrefix(text, t.tok)

DenotesEquality(tree, p) ==
    LET w == AttachedAlone(tree, p)
    IN  /\ Len(w) = 1
        /\ w[1].k = "map"
        /\ LeafReading(MapLeaf(w[1].m)) =
              [pol |-> <<"=">>, rest |-> Unquoted(NodeAt(tree, p).RightChild.Value)]

\* C29  No operator smuggling through literals: for a navigation-path eq
\* comparison the leaf handed to Where(map) denotes equality with the input
\* literal for every literal, also one that begins with a configured prefix
\* token ('>5'); the literal's text is never a value the prefix-value
\* collaborator reads as a prefix-encoded comparison or LIKE.
C29_NoOperatorSmuggling ==
    (Accepted /\ Build.emitted /\ Clean(Root)) =>
        \A p \in PredicatePaths(Root) :
            NavEqualityAt(Root, p) => DenotesEquality(Root, p)

\* the same for the literals that begin with no token of the builder's plugin
C29_OtherLiterals ==
    (Accepted /\ Build.emitted /\ Clean(Root)) =>
        \A p \in PredicatePaths(Root) :
            (/\ NavEqualityAt(Root, p)
             /\ ~BeginsWithToken(Unquoted(NodeAt(Root, p).RightChild.Value))) =>
                DenotesEquality(Root, p)

\* meta/tVal eq '>5' attached the leaf >5, which the collaborator reads as
\* greater than 5
C29_Smuggled ==
    /\ Accepted
    /\ Build.emitted
    /\ NavEqualityAt(Root, <<>>)
    /\ Len(Added) = 1
    /\ Added[1].k = "map"
    /\ MapLeaf(Added[1].m) = <<">", "5">>
    /\ LeafReading(MapLeaf(Added[1].m)) = [pol |-> <<">">>, rest |-> <<"5">>]

-----------------------------------------------------------------------------
\* the loop states of validateQuery from st on, at most fuel iterations of them
RECURSIVE validateTrace(_, _, _, _, _)
validateTrace(tree, maxTreeDepth, columnNamesList, st, fuel) ==
    IF st.returned \/ fuel = 0 THEN <<st>>
    ELSE <<st>> \o validateTrace(tree, maxTreeDepth, columnNamesList,
                                 validateStep(tree, maxTreeDepth, columnNamesList, st),
                                 fuel - 1)

\* every node is entered once from above and left once, and the loop test
\* fails once: more iterations than that is a loop that does not end
TraversalFuel(tree) == 2 * Cardinality(Paths(tree)) + 1

Traversal ==
    validateTrace(Root, input.maxTreeDepth, columnNames(input.model), validateStart,
                  TraversalFuel(Root))

TraversalEnd == Traversal[Len(Traversal)]

TraversalTotal(tr) ==
    LET end == tr[Len(tr)]
    IN  /\ end.returned
        /\ end.err.kind # "panic"
        /\ \A i \in 1..Len(tr) : tr[i].depth = Len(tr[i].currentNode)
        /\ end.err = NilError => end.nodesVisited = Paths(Root)

C30_RootWithChildren ==
    (Validated /\ Root.Type # "LeftOperand") =>
        (Valid.err = TraversalEnd.err /\ TraversalTotal(Traversal))

\* the filter of one identifier: the root is a LeftOperand without a Parent,
\* and the call ends in the panic before any node is marked visited
C30_RootOperandPanics ==
    /\ Validated
    /\ Root = LeftOperand(name)
    /\ Valid.err = NilDereference
    /\ TraversalEnd.nodesVisited = {}
    /\ Len(Traversal) = 2

=============================================================================
